---- MODULE Spec2Model ----
(***************************************************************************)
(* A model of the lazy Series / DataFrame pipeline engine of data-forge    *)
(* (src/src/series.js).  A pipeline is a root array of pairs and the list  *)
(* of operators stacked on it; a cursor is the set of closure variables    *)
(* that getIterator() allocates for every operator of the pipeline.        *)
(***************************************************************************)
EXTENDS Integers, Sequences, FiniteSets, TLC

VARIABLES
    source,     \* the array of [index, value] pairs backing the root Series
    pipe,       \* the operators stacked on the root, innermost first
    cells,      \* closure variables: cells[s][k+1] is operator k's state in scope s
    status,     \* status[c]: "closed", "before", "live" or "done" for client cursor c
    seen,       \* seen[c]: the pairs getCurrent() returned to client cursor c
    results,    \* the values returned by the terminal calls made so far
    srcIters,   \* how often a cursor was requested from the root iterable
    calls       \* the arguments of the user callbacks invoked so far

vars == <<source, pipe, cells, status, seen, results, srcIters, calls>>

-----------------------------------------------------------------------------
(* Bounds of the model.                                                    *)

MaxLen == 3
MaxDepth == 2
MaxCount == 2
MaxPeriod == 2
MaxCalls == 2
MaxBatch == 2
MaxInner == 2

-----------------------------------------------------------------------------
(* Values and pairs.  A pair [index, value] is the tuple <<index, value>>. *)

Undefined == [kind |-> "undefined"]
Null == [kind |-> "null"]
Num(n) == [kind |-> "num", n |-> n]
\* A Series object held as a value (a window): the operators it stacks on the root.
SeriesValue(p) == [kind |-> "series", p |-> p]
\* A record of a DataFrame: f maps the names of its fields to their values.
Row(f) == [kind |-> "row", f |-> f]

\* A pair held as a value: what firstPair() and lastPair() return.
SeriesPair(pair) == [kind |-> "pair", pair |-> pair]

\* A string, a Date and NaN.
Str(s) == [kind |-> "str", s |-> s]
Date(s, formatString) == [kind |-> "date", s |-> s, formatString |-> formatString]
NaN == [kind |-> "nan"]

\* What a call that throws gives its caller: new Error("No values in Series.")
Error == [kind |-> "error"]

Values == {Undefined, Null, Num(1)}

\* The user callbacks the model passes to where/skipWhile/takeWhile.
Predicates == {"isOne", "notOne"}

predicate(fn, value) ==
    IF fn = "isOne" THEN value = Num(1) ELSE value # Num(1)

\* A user predicate that looks at its second argument:
\* function (value, index) { return typeof index === "number"; }
IndexPredicates == {"indexIsNumber"}

\* The user's predicate fn called with the arguments args.
predicate_call(fn, args) ==
    IF fn \in IndexPredicates THEN Len(args) >= 2 /\ args[2] \in Int
    ELSE predicate(fn, args[1])

\* skipUntil and takeUntil wrap the user's predicate:
\* function (value) { return !predicate(value); }
Until(fn) == CASE fn = "indexIsNumber" -> "until indexIsNumber"
               [] fn = "isOne" -> "until isOne"
               [] fn = "notOne" -> "until notOne"
UntilOf(fn) == CASE fn = "until indexIsNumber" -> "indexIsNumber"
                 [] fn = "until isOne" -> "isOne"
                 [] fn = "until notOne" -> "notOne"
Untils == {"until indexIsNumber", "until isOne", "until notOne"}

\* The predicate fn that where, skipWhile and takeWhile were given, called by
\* the function they hand to their iterable:
\* function (pair) { return predicate(pair[1]); }
Series_predicate(fn, pair) ==
    IF fn \in Untils THEN ~predicate_call(UntilOf(fn), <<pair[2]>>)
    ELSE predicate_call(fn, <<pair[2]>>)

\* The user callback the model passes to select: function (v) { return v + 1; }
\* on numbers, the value itself otherwise.
selector(value) ==
    IF value.kind = "num" THEN Num(value.n + 1) ELSE value

\* The user callback the model passes to selectPairs: [index + 1, value].
pairSelector(pair) == <<pair[1] + 1, pair[2]>>

-----------------------------------------------------------------------------
(* Closure-variable scopes.  IterableScope holds the variables captured    *)
(* when the transformation is called; the scope of a cursor holds the      *)
(* variables declared inside getIterator or inside an iterator             *)
(* constructor.                                                            *)

IterableScope == "iterable"
Clients == {"client1", "client2"}
TerminalCursor == "terminal"
TempCursor == "temp"
\* cs[RootLog] counts the cursors requested from the root iterable.
RootLog == "log"
\* cs[RootArray] is the array object backing the root iterable.
RootArray == "array"

NoState == [none |-> TRUE]
MaxLayers == MaxDepth + 3
BlankStore == [k \in 1..MaxLayers |-> NoState]


\* javascript: closure variables declared inside getIterator (or inside an
\* iterator constructor) belong to the cursor that the call creates.
WindowScope_shared(c) == IterableScope
WindowScope(c) == c

RollingWindowScope(c) == c

SkipWhileScope_shared(c) == IterableScope
SkipWhileScope(c) == c

Get(cs, s, k) == cs[s][k + 1]
Put(cs, s, k, st) == [cs EXCEPT ![s][k + 1] = st]
\* A variable of the iterable scope is initialised when the iterable is built,
\* a variable of a cursor scope whenever a cursor is created.
InitAt(cs, s, k, st) == IF s = IterableScope THEN cs ELSE Put(cs, s, k, st)

Reverse(seq) == [i \in 1..Len(seq) |-> seq[Len(seq) + 1 - i]]

WindowInit == [curOutput |-> Undefined, windowIndex |-> 0]
\* tested records the pairs the predicate has been called with on the cursor.
SkipWhileInit == [skipped |-> FALSE, tested |-> <<>>]

\* The closure variables an operator holds at iterable scope (none in the code:
\* the slots only matter when a scope operator above says IterableScope).
IterableInit(op) ==
    CASE op.op \in {"window", "rollingWindow"} -> WindowInit
      [] op.op \in {"skipWhile", "slice"} -> SkipWhileInit
      [] OTHER -> NoState

-----------------------------------------------------------------------------
(* The cursor protocol.  getIterator(p, k, c, cs) creates in scope c the   *)
(* cursor of operator k of pipeline p (operator 0 is the root array),      *)
(* moveNext advances it and getCurrent reads it; cs is the store of        *)
(* closure variables and each operator returns the store it leaves.        *)

RECURSIVE getIterator(_, _, _, _)
RECURSIVE moveNext(_, _, _, _)
RECURSIVE getCurrent(_, _, _, _)
RECURSIVE drain(_, _, _, _, _)
RECURSIVE SkipIterator_moveNext(_, _, _, _)
RECURSIVE WhereIterator_moveNext(_, _, _, _)
RECURSIVE SkipWhileIterator_moveNext(_, _, _, _, _)
RECURSIVE SortContext_compare(_, _, _, _, _)
RECURSIVE sortIndexes(_, _, _)

\* A cursor of its own, in the scope TempCursor, for a call made inside an operator.
WithTemp(cs) == (TempCursor :> BlankStore) @@ cs

\* The pairs a fresh cursor over p yields, undefined values included, and the
\* store it leaves.
pairsOf(p, cs) ==
    drain(p, Len(p), TempCursor, getIterator(p, Len(p), TempCursor, WithTemp(cs)), <<>>)

\* What a call made inside an operator gives back: its value and the root log.
Returned(val, cs) == [val |-> val, log |-> cs[RootLog]]

\* count(): d is what stepping a cursor of its own to the end gave.
count_total(d) == Returned(Len(d.seq), d.cs)
count(p, cs) == count_total(pairsOf(p, cs))

\* none(predicate) with predicate = function () { return true; }: r is the
\* answer of the first moveNext() of a cursor of its own.
none_result(r) == Returned(~r.ok, r.cs)
noneTrue(p, cs) ==
    none_result(moveNext(p, Len(p), TempCursor, getIterator(p, Len(p), TempCursor, WithTemp(cs))))

\* self.skip(n).take(m)
skipTake(p, n, m) == p \o <<[n |-> n, op |-> "skip"], [n |-> m, op |-> "take"]>>

ArrayIterator_moveNext(c, cs) ==
    LET st == Get(cs, c, 0)
    IN  IF st.pos < Len(cs[RootArray])
        THEN [cs |-> Put(cs, c, 0, [pos |-> st.pos + 1]), ok |-> TRUE]
        ELSE [cs |-> cs, ok |-> FALSE]

\* r is the answer of the inner moveNext(), st the state before it.
SkipIterator_skip(p, k, c, st, r) ==
    IF ~r.ok THEN r
    ELSE IF st.left > 0
         THEN SkipIterator_moveNext(p, k, c, Put(r.cs, c, k, [left |-> st.left - 1]))
         ELSE r

SkipIterator_moveNext(p, k, c, cs) ==
    SkipIterator_skip(p, k, c, Get(cs, c, k), moveNext(p, k - 1, c, cs))

TakeIterator_take(k, c, st, r) ==
    [cs |-> Put(r.cs, c, k, [left |-> st.left - 1]), ok |-> r.ok]

TakeIterator_moveNext(p, k, c, cs) ==
    IF Get(cs, c, k).left <= 0 THEN [cs |-> cs, ok |-> FALSE]
    ELSE TakeIterator_take(k, c, Get(cs, c, k), moveNext(p, k - 1, c, cs))

WhereIterator_test(p, k, c, r) ==
    IF ~r.ok THEN r
    ELSE IF Series_predicate(p[k].fn, getCurrent(p, k - 1, c, r.cs)) THEN r
         ELSE WhereIterator_moveNext(p, k, c, r.cs)

WhereIterator_moveNext(p, k, c, cs) ==
    WhereIterator_test(p, k, c, moveNext(p, k - 1, c, cs))

\* slice(startIndex, endIndex): the predicates built over the index of a pair.
\* The user callbacks the model passes to slice as its third argument;
\* NoPredicate stands for a call with two arguments.
NoPredicate == "none"
SlicePredicates == {"less", "greater"}
slice_predicate(fn, a, b) == IF fn = "less" THEN a < b ELSE a > b

\* return predicate && predicate(value, startIndex) || value < startIndex;
startPredicate(slice, value) ==
    (slice.predicate # NoPredicate /\ slice_predicate(slice.predicate, value, slice.start))
        \/ value < slice.start

endPredicate_inclusive(slice, value) ==
    (slice.predicate # NoPredicate /\ slice_predicate(slice.predicate, value, slice.end))
        \/ value <= slice.end
\* return predicate && predicate(value, endIndex) || value < endIndex;
endPredicate(slice, value) ==
    (slice.predicate # NoPredicate /\ slice_predicate(slice.predicate, value, slice.end))
        \/ value < slice.end

\* The predicate fn the iterable hands to its iterator, applied to a pair: the
\* user's predicate over the value or a predicate of slice over the index.
pairPredicate(operator, fn, pair) ==
    CASE fn = "startIndex" -> startPredicate(operator, pair[1])
      [] fn = "endIndex" -> endPredicate(operator, pair[1])
      [] OTHER -> Series_predicate(fn, pair)

\* The store after predicate(iterator.getCurrent()) has been called.
SkipWhileIterator_called(p, k, c, s, cs) ==
    Put(cs, s, k, [Get(cs, s, k) EXCEPT !.tested = Append(@, getCurrent(p, k - 1, c, cs))])

\* As SkipWhileIterator_test, but without the test of skipped.
SkipWhileIterator_test_always(p, k, c, s, fn, r) ==
    IF ~r.ok THEN r
    ELSE IF ~pairPredicate(p[k], fn, getCurrent(p, k - 1, c, r.cs))
         THEN [cs |-> Put(SkipWhileIterator_called(p, k, c, s, r.cs), s, k,
                          [Get(SkipWhileIterator_called(p, k, c, s, r.cs), s, k)
                              EXCEPT !.skipped = TRUE]),
               ok |-> TRUE]
         ELSE SkipWhileIterator_moveNext(p, k, c, SkipWhileIterator_called(p, k, c, s, r.cs), fn)

\* r is the answer of iterator.moveNext(); the variable skipped lives in scope s.
SkipWhileIterator_test(p, k, c, s, fn, r) ==
    IF ~r.ok THEN r
    ELSE IF Get(r.cs, s, k).skipped THEN r
    ELSE IF ~pairPredicate(p[k], fn, getCurrent(p, k - 1, c, r.cs))
         THEN [cs |-> Put(SkipWhileIterator_called(p, k, c, s, r.cs), s, k,
                          [Get(SkipWhileIterator_called(p, k, c, s, r.cs), s, k)
                              EXCEPT !.skipped = TRUE]),
               ok |-> TRUE]
         ELSE SkipWhileIterator_moveNext(p, k, c, SkipWhileIterator_called(p, k, c, s, r.cs), fn)

SkipWhileIterator_moveNext(p, k, c, cs, fn) ==
    SkipWhileIterator_test(p, k, c, SkipWhileScope(c), fn, moveNext(p, k - 1, c, cs))

\* r is the answer of the inner moveNext().  The iterator stops at the first
\* pair the predicate rejects; that pair is consumed.
TakeWhileIterator_moveNext(p, k, c, cs, r, fn) ==
    IF Get(cs, c, k).done THEN [cs |-> cs, ok |-> FALSE]
    ELSE IF r.ok /\ pairPredicate(p[k], fn, getCurrent(p, k - 1, c, r.cs)) THEN r
    ELSE [cs |-> Put(r.cs, c, k, [done |-> TRUE]), ok |-> FALSE]

\* PairIterator(CountIterator, ExtractIterator(self, 1))
resetIndex_count(k, c, st, r) ==
    IF r.ok THEN [cs |-> Put(r.cs, c, k, [count |-> st.count + 1]), ok |-> TRUE]
    ELSE r

resetIndex_moveNext(p, k, c, cs) ==
    resetIndex_count(k, c, Get(cs, c, k), moveNext(p, k - 1, c, cs))

\* DataFrame.prototype.dropSeries / keepSeries: the selector handed to the
\* SelectIterator.  out is the pair it returns, arg the pair it was given as the
\* call leaves it.
Restrict(f, names) == [name \in names |-> f[name]]

dropSeries_selector_nocopy(pair, columns) ==
    LET row == Row(Restrict(pair[2].f, DOMAIN pair[2].f \ columns))
    IN  [arg |-> <<pair[1], row>>, out |-> <<pair[1], row>>]
dropSeries_selector(pair, columns) ==
    LET row == Row(Restrict(pair[2].f, DOMAIN pair[2].f \ columns))
    IN  [arg |-> pair, out |-> <<pair[1], row>>]

keepSeries_selector(pair, columns) ==
    LET row == Row(Restrict(pair[2].f, DOMAIN pair[2].f \cap columns))
    IN  [arg |-> pair, out |-> <<pair[1], row>>]

SelectIterator_selector(operator, pair) ==
    IF operator.op = "dropSeries" THEN dropSeries_selector(pair, operator.columns)
    ELSE keepSeries_selector(pair, operator.columns)

\* The pair handed to the selector is the object the cursor below returned: for
\* an operator right above the root, the element of the root array.
SelectIterator_selected(k, c, cs, called) ==
    LET cs1 == IF k = 1
               THEN [cs EXCEPT ![RootArray][Get(cs, c, 0).pos] = called.arg]
               ELSE cs
    IN  [cs |-> Put(cs1, c, k, [cur |-> called.out]), ok |-> TRUE]

SelectIterator_select(p, k, c, r) ==
    IF r.ok
    THEN SelectIterator_selected(k, c, r.cs,
            SelectIterator_selector(p[k], getCurrent(p, k - 1, c, r.cs)))
    ELSE r

SelectIterator_moveNext(p, k, c, cs) ==
    SelectIterator_select(p, k, c, moveNext(p, k - 1, c, cs))

\* parseInt(s) and parseFloat(s) on the strings of the model.
parseInt(s) == CASE s = "1" -> Num(1) [] s = "12" -> Num(12) [] OTHER -> NaN
parseFloat(s) == CASE s = "1" -> Num(1) [] s = "12" -> Num(12) [] OTHER -> NaN

ParseOps == {"parseInts", "parseFloats", "parseDates"}

\* As parse_selector, but parsing the empty string like any other.
parse_selector_empty(operator, value) ==
    IF value = Undefined THEN Undefined
    ELSE IF value.kind # "str" THEN Error
    ELSE CASE operator.op = "parseInts" -> parseInt(value.s)
           [] operator.op = "parseFloats" -> parseFloat(value.s)
           [] operator.op = "parseDates" -> Date(value.s, operator.formatString)

\* The selector parseInts, parseFloats and parseDates hand to select; Error
\* when assert.isString throws.
parse_selector(operator, value) ==
    IF value = Undefined THEN Undefined
    ELSE IF value.kind # "str" THEN Error
    ELSE IF value.s = "" THEN Undefined
    ELSE CASE operator.op = "parseInts" -> parseInt(value.s)
           [] operator.op = "parseFloats" -> parseFloat(value.s)
           [] operator.op = "parseDates" -> Date(value.s, operator.formatString)

\* select(selector) with the selector of a parse function.
parse_getCurrent(operator, pair) == <<pair[1], parse_selector(operator, pair[2])>>

\* select(selector): the pair with the value the selector returns.
SelectValues_getCurrent(pair) == <<pair[1], selector(pair[2])>>

\* new ArrayIterator(pairs) over the array an operator captured.
captured_moveNext(p, k, c, cs) ==
    LET st == Get(cs, c, k)
    IN  IF st.pos < Len(p[k].pairs)
        THEN [cs |-> Put(cs, c, k, [pos |-> st.pos + 1]), ok |-> TRUE]
        ELSE [cs |-> cs, ok |-> FALSE]

\* Number(value) of javascript for the values the callbacks of the model receive.
ToNumber(value) == IF value.kind = "num" THEN value.n ELSE 0

\* The user callbacks the model passes to orderBy/thenBy:
\* function (v) { return Math.floor(v / 2); } and function (v) { return v % 2; }
SortSelectors == {"high", "low"}

sortSelector(fn, value) ==
    IF fn = "high" THEN ToNumber(value) \div 2 ELSE ToNumber(value) % 2

\* linq: the comparison of two keys, and of two positions.
compare(a, b) == IF a = b THEN 0 ELSE IF a > b THEN 1 ELSE -1

\* linq: the sort commands of the batch are compared in turn, each in its own
\* direction; pairs whose keys are all equal compare by their position.
SortContext_compare(batch, level, pairs, index1, index2) ==
    LET orderCmd == batch[level]
        comparison == compare(sortSelector(orderCmd.sortSelector, pairs[index1][2]),
                              sortSelector(orderCmd.sortSelector, pairs[index2][2]))
    IN  IF comparison = 0
        THEN IF level < Len(batch)
             THEN SortContext_compare(batch, level + 1, pairs, index1, index2)
             ELSE compare(index1, index2)
        ELSE IF orderCmd.sortMethod \in {"orderByDescending", "thenByDescending"}
             THEN -comparison
             ELSE comparison

\* The positions S of pairs, sorted by SortContext_compare.
sortIndexes(batch, pairs, S) ==
    IF S = {} THEN <<>>
    ELSE LET least == CHOOSE i \in S :
                        \A j \in S \ {i} : SortContext_compare(batch, 1, pairs, i, j) < 0
         IN  <<least>> \o sortIndexes(batch, pairs, S \ {least})

executeLazySort(pairs, batch) ==
    LET indexes == sortIndexes(batch, pairs, 1..Len(pairs))
    IN  [n \in 1..Len(pairs) |-> pairs[indexes[n]]]

\* getIterator of a sorted Series: new ArrayIterator(executeLazySort()), where
\* self.toPairs() gives the pairs d.seq of a cursor over self whose value is not
\* undefined.
executeOrderBy_getIterator(p, k, c, d) ==
    LET pairs == SelectSeq(d.seq, LAMBDA pair : pair[2] # Undefined)
    IN  Put(d.cs, c, k, [pos |-> 0, buf |-> executeLazySort(pairs, p[k].batch)])

\* record[columnName], undefined when the record has no such field.
Field(record, columnName) ==
    IF columnName \in DOMAIN record.f THEN record.f[columnName] ELSE Undefined

\* The pairs of getSeries(columnName) over the pairs from of the frame:
\* [pair[0], pair[1][columnName]] where the value !== undefined.
getSeries_pairs(from, columnName) ==
    SelectSeq([i \in 1..Len(from) |-> <<from[i][1], Field(from[i][2], columnName)>>],
              LAMBDA pair : pair[2] # Undefined)

\* PairIterator over the values of the pairs index and rows: it ends when
\* either of them does.
PairIterator_pairs(index, rows) ==
    [i \in 1..(IF Len(index) < Len(rows) THEN Len(index) ELSE Len(rows)) |->
        <<index[i][2], rows[i][2]>>]

\* index and rows are the pairs of the two cursors over self.
setIndex_pairs(index, rows, columnName) ==
    PairIterator_pairs(getSeries_pairs(index, columnName), rows)

\* getIterator of setIndex(columnName): a cursor over getSeries(columnName)
\* and a cursor over self, stepped together; the model reads both (d is what
\* the first gave) when the cursor is created.
setIndex_rows(p, k, c, d, rows) ==
    Put(rows.cs, c, k,
        [pos |-> 0, buf |-> setIndex_pairs(d.seq, rows.seq, p[k].columnName)])

setIndex_getIterator(p, k, c, d) ==
    setIndex_rows(p, k, c, d, drain(p, k - 1, c, getIterator(p, k - 1, c, d.cs), <<>>))

\* The pairs of setSeries(columnName, data) over the pairs from of a frame that
\* has the column, data being a Series over the index of the frame: the value of
\* the column is data[rowIndex] in every row.
setSeries_pairs(from, columnName, data) ==
    [i \in 1..Len(from) |->
        <<from[i][1], Row([from[i][2].f EXCEPT ![columnName] = data[i][2]])>>]

\* The pairs of select(selector) over the pairs from of a Series.
select_pairs(from) == [i \in 1..Len(from) |-> <<from[i][1], selector(from[i][2])>>]

\* function (prevDataFrame, columnName) of transformSeries: self and
\* prevDataFrame are the pairs of the two frames, columnNames the column names
\* they share.
transformSeries_selector(self, columnNames, prevDataFrame, columnName) ==
    IF columnName \in {columnNames[i] : i \in 1..Len(columnNames)}
    THEN setSeries_pairs(prevDataFrame, columnName,
                         select_pairs(getSeries_pairs(prevDataFrame, columnName)))
    ELSE self

\* E.from(Object.keys(columnSelectors)).aggregate(self, ...) from key i on.
RECURSIVE transformSeries_aggregate(_, _, _, _, _)
transformSeries_aggregate(self, columnNames, keys, prevDataFrame, i) ==
    IF i > Len(keys) THEN prevDataFrame
    ELSE transformSeries_aggregate(self, columnNames, keys,
            transformSeries_selector(self, columnNames, prevDataFrame, keys[i]), i + 1)

\* getIterator of transformSeries(columnSelectors); d is what a cursor over
\* self gave.  The frames of the aggregation are read when the cursor is created.
transformSeries_getIterator(p, k, c, d) ==
    Put(d.cs, c, k,
        [pos |-> 0,
         buf |-> transformSeries_aggregate(d.seq, p[k].columnNames, p[k].keys, d.seq, 1)])

\* new ArrayIterator over the array buf the cursor built when it was created.
reverse_moveNext(k, c, cs) ==
    LET st == Get(cs, c, k)
    IN  IF st.pos < Len(st.buf)
        THEN [cs |-> Put(cs, c, k, [st EXCEPT !.pos = st.pos + 1]), ok |-> TRUE]
        ELSE [cs |-> cs, ok |-> FALSE]

\* The end of moveNext of window and rollingWindow: stop tells whether nothing
\* is left, log is the root log after the question was answered.
window_output(k, s, st, window, cs, stop, log) ==
    IF stop THEN [cs |-> [cs EXCEPT ![RootLog] = log], ok |-> FALSE]
    ELSE [cs |-> Put([cs EXCEPT ![RootLog] = log], s, k,
                     [curOutput |-> <<st.windowIndex, SeriesValue(window)>>,
                      windowIndex |-> st.windowIndex + 1]),
          ok |-> TRUE]

window_none(k, s, st, window, cs, none) ==
    window_output(k, s, st, window, cs, none.val, none.log)

window_next(k, s, st, window, cs) ==
    window_none(k, s, st, window, cs, noneTrue(window, cs))

\* As window_moveNext, but stepping by one pair instead of by period.
window_moveNext_step1(p, k, c, cs) ==
    LET st == Get(cs, WindowScope(c), k)
    IN  window_next(k, WindowScope(c), st,
                    skipTake(SubSeq(p, 1, k - 1), st.windowIndex, p[k].period), cs)

window_moveNext(p, k, c, cs) ==
    LET st == Get(cs, WindowScope(c), k)
    IN  window_next(k, WindowScope(c), st,
                    skipTake(SubSeq(p, 1, k - 1), st.windowIndex * p[k].period, p[k].period), cs)

\* As rollingWindow_count, but stopping at a window of exactly period pairs.
rollingWindow_count_le(k, s, st, window, period, cs, n) ==
    window_output(k, s, st, window, cs, n.val <= period, n.log)

\* n is window.count().
rollingWindow_count(k, s, st, window, period, cs, n) ==
    window_output(k, s, st, window, cs, n.val < period, n.log)

rollingWindow_next(k, s, st, window, period, cs) ==
    rollingWindow_count(k, s, st, window, period, cs, count(window, cs))

rollingWindow_moveNext(p, k, c, cs) ==
    LET st == Get(cs, RollingWindowScope(c), k)
    IN  rollingWindow_next(k, RollingWindowScope(c), st,
                           skipTake(SubSeq(p, 1, k - 1), st.windowIndex, p[k].period),
                           p[k].period, cs)

moveNext(p, k, c, cs) ==
    IF k = 0 THEN ArrayIterator_moveNext(c, cs)
    ELSE CASE p[k].op = "skip" -> SkipIterator_moveNext(p, k, c, cs)
           [] p[k].op = "take" -> TakeIterator_moveNext(p, k, c, cs)
           [] p[k].op = "where" -> WhereIterator_moveNext(p, k, c, cs)
           [] p[k].op \in {"select", "selectPairs"} \cup ParseOps -> moveNext(p, k - 1, c, cs)
           [] p[k].op = "skipWhile" -> SkipWhileIterator_moveNext(p, k, c, cs, p[k].fn)
           [] p[k].op \in {"takeWhile", "slice"} ->
                IF Get(cs, c, k).done THEN [cs |-> cs, ok |-> FALSE]
                ELSE IF p[k].op = "takeWhile"
                     THEN TakeWhileIterator_moveNext(p, k, c, cs, moveNext(p, k - 1, c, cs),
                                                     p[k].fn)
                     ELSE TakeWhileIterator_moveNext(p, k, c, cs,
                            SkipWhileIterator_moveNext(p, k, c, cs, "startIndex"), "endIndex")
           [] p[k].op = "resetIndex" -> resetIndex_moveNext(p, k, c, cs)
           [] p[k].op \in {"reverse", "orderBy", "thenBy", "setIndex", "transformSeries"} ->
                reverse_moveNext(k, c, cs)
           [] p[k].op \in {"dropSeries", "keepSeries"} -> SelectIterator_moveNext(p, k, c, cs)
           [] p[k].op = "array" -> captured_moveNext(p, k, c, cs)
           [] p[k].op = "window" -> window_moveNext(p, k, c, cs)
           [] p[k].op = "rollingWindow" -> rollingWindow_moveNext(p, k, c, cs)

getCurrent(p, k, c, cs) ==
    IF k = 0 THEN cs[RootArray][Get(cs, c, 0).pos]
    ELSE CASE p[k].op = "select" -> SelectValues_getCurrent(getCurrent(p, k - 1, c, cs))
           [] p[k].op = "selectPairs" -> pairSelector(getCurrent(p, k - 1, c, cs))
           [] p[k].op \in ParseOps -> parse_getCurrent(p[k], getCurrent(p, k - 1, c, cs))
           [] p[k].op = "resetIndex" ->
                <<Get(cs, c, k).count, getCurrent(p, k - 1, c, cs)[2]>>
           [] p[k].op \in {"reverse", "orderBy", "thenBy", "setIndex", "transformSeries"} ->
                Get(cs, c, k).buf[Get(cs, c, k).pos]
           [] p[k].op \in {"dropSeries", "keepSeries"} -> Get(cs, c, k).cur
           [] p[k].op = "array" -> p[k].pairs[Get(cs, c, k).pos]
           [] p[k].op = "window" -> Get(cs, WindowScope(c), k).curOutput
           [] p[k].op = "rollingWindow" -> Get(cs, RollingWindowScope(c), k).curOutput
           [] OTHER -> getCurrent(p, k - 1, c, cs)

\* while (iterator.moveNext()) { pairs.push(iterator.getCurrent()); }
\* r is the answer of the moveNext() of this round.
drain_push(p, k, c, acc, r) ==
    IF r.ok THEN drain(p, k, c, r.cs, Append(acc, getCurrent(p, k, c, r.cs)))
    ELSE [cs |-> r.cs, seq |-> acc]

drain(p, k, c, cs, acc) == drain_push(p, k, c, acc, moveNext(p, k, c, cs))

\* As reverse_getIterator, but reversing the root array itself.
reverse_getIterator_inplace(k, c, d) ==
    LET cs1 == IF k = 1 THEN [d.cs EXCEPT ![RootArray] = Reverse(d.seq)] ELSE d.cs
    IN  Put(cs1, c, k, [pos |-> 0, buf |-> Reverse(d.seq)])

\* The pairs d.seq of a cursor over self are collected in an array of the
\* cursor's own, which is then reversed in place.
reverse_getIterator(k, c, d) ==
    Put(d.cs, c, k, [pos |-> 0, buf |-> Reverse(d.seq)])

\* The cursors of reverse and of a sorted Series are built from d, the pairs of
\* a cursor over self stepped to its end.
buffered_getIterator(p, k, c, d) ==
    IF p[k].op = "reverse" THEN reverse_getIterator(k, c, d)
    ELSE executeOrderBy_getIterator(p, k, c, d)

getIterator(p, k, c, cs) ==
    IF k = 0 THEN [Put(cs, c, 0, [pos |-> 0]) EXCEPT ![RootLog] = @ + 1]
    ELSE CASE p[k].op \in {"skip", "take"} ->
                Put(getIterator(p, k - 1, c, cs), c, k, [left |-> p[k].n])
           [] p[k].op \in {"where", "select", "selectPairs", "dropSeries", "keepSeries"}
                          \cup ParseOps ->
                Put(getIterator(p, k - 1, c, cs), c, k, NoState)
           [] p[k].op = "skipWhile" ->
                InitAt(getIterator(p, k - 1, c, cs), SkipWhileScope(c), k, SkipWhileInit)
           [] p[k].op = "takeWhile" ->
                Put(getIterator(p, k - 1, c, cs), c, k, [done |-> FALSE])
           [] p[k].op = "slice" ->
                Put(getIterator(p, k - 1, c, cs), c, k,
                    [skipped |-> FALSE, tested |-> <<>>, done |-> FALSE])
           [] p[k].op = "resetIndex" ->
                Put(getIterator(p, k - 1, c, cs), c, k, [count |-> -1])
           [] p[k].op = "transformSeries" ->
                transformSeries_getIterator(p, k, c,
                    drain(p, k - 1, c, getIterator(p, k - 1, c, cs), <<>>))
           [] p[k].op = "setIndex" ->
                setIndex_getIterator(p, k, c,
                    drain(p, k - 1, c, getIterator(p, k - 1, c, cs), <<>>))
           [] p[k].op = "thenBy" ->
                executeOrderBy_getIterator(p, k, c,
                    drain(p, k - 2, c, getIterator(p, k - 2, c, cs), <<>>))
           [] p[k].op \in {"reverse", "orderBy"} ->
                buffered_getIterator(p, k, c,
                    drain(p, k - 1, c, getIterator(p, k - 1, c, cs), <<>>))
           [] p[k].op = "array" -> Put(cs, c, k, [pos |-> 0])
           [] p[k].op = "window" -> InitAt(cs, WindowScope(c), k, WindowInit)
           [] p[k].op = "rollingWindow" -> InitAt(cs, RollingWindowScope(c), k, WindowInit)


-----------------------------------------------------------------------------
(* Terminal calls: each creates a cursor of its own and drives it to the   *)
(* end.  They return [val |-> the value, cs |-> the store left].           *)

\* var iterator = self.getIterator(); while (iterator.moveNext()) { ... }
Terminal_drain(p, cs) ==
    drain(p, Len(p), TerminalCursor,
          getIterator(p, Len(p), TerminalCursor, (TerminalCursor :> BlankStore) @@ cs),
          <<>>)

\* As toPairs_push, but with != in place of !==, which also drops null.
toPairs_push_loose(d) ==
    [cs |-> d.cs, val |-> SelectSeq(d.seq, LAMBDA pair : pair[2] \notin {Undefined, Null})]

\* d.seq is what the cursor yielded; a pair is pushed if its value !== undefined.
toPairs_push(d) ==
    [cs |-> d.cs, val |-> SelectSeq(d.seq, LAMBDA pair : pair[2] # Undefined)]

toPairs(p, cs) == toPairs_push(Terminal_drain(p, cs))

toValues_push(d) ==
    LET kept == SelectSeq(d.seq, LAMBDA pair : pair[2] # Undefined)
    IN  [cs |-> d.cs, val |-> [i \in 1..Len(kept) |-> kept[i][2]]]

toValues(p, cs) == toValues_push(Terminal_drain(p, cs))

\* count() steps a cursor of its own to the end and returns the number of steps.
Series_count_total(d) == [cs |-> d.cs, val |-> Len(d.seq)]

Series_count(p, cs) == Series_count_total(Terminal_drain(p, cs))

-----------------------------------------------------------------------------
(* The state machine.                                                      *)

\* The store an action hands to the operators, and what it keeps of the result.
Store == (RootLog :> srcIters) @@ (RootArray :> source) @@ cells
Kept(cs) == [s \in DOMAIN cells |-> cs[s]]

HasOp(name) == \E k \in 1..Len(pipe) : pipe[k].op = name
Top(p) == p[Len(p)]
TopOp(p) == IF p = <<>> THEN "root" ELSE Top(p).op
Prefix(p) == SubSeq(p, 1, Len(p) - 1)

\* new Series({ values: [...] }): the index is 0, 1, 2, ...
ArraysOf(vals) ==
    UNION {[1..n -> vals] : n \in 0..MaxLen}
DefaultIndexed(values) == [i \in 1..Len(values) |-> <<i - 1, values[i]>>]

InitRest ==
    /\ pipe = <<>>
    /\ cells = [s \in {IterableScope} \cup Clients |-> BlankStore]
    /\ status = [c \in Clients |-> "closed"]
    /\ seen = [c \in Clients |-> <<>>]
    /\ results = <<>>
    /\ srcIters = 0
    /\ calls = <<>>

Init ==
    /\ source \in {DefaultIndexed(values) : values \in ArraysOf(Values)}
    /\ InitRest

Untouched == \A c \in Clients : status[c] = "closed"

\* A lazy transformation: the new Series wraps the current one in an iterable.
Wrap(op) ==
    /\ Len(pipe) < MaxDepth
    /\ Untouched
    /\ results = <<>>
    /\ pipe' = Append(pipe, op)
    /\ cells' = [cells EXCEPT ![IterableScope][Len(pipe) + 2] = IterableInit(op)]
    /\ UNCHANGED <<source, status, seen, results, srcIters, calls>>

Counts == 0..MaxCount
Periods == 1..MaxPeriod

skip == \E n \in Counts : Wrap([n |-> n, op |-> "skip"])
take == \E n \in Counts : Wrap([n |-> n, op |-> "take"])
where == \E fn \in Predicates : Wrap([fn |-> fn, op |-> "where"])
select == Wrap([op |-> "select"])
selectPairs == Wrap([op |-> "selectPairs"])
skipWhile == \E fn \in Predicates : Wrap([fn |-> fn, op |-> "skipWhile"])
takeWhile == \E fn \in Predicates : Wrap([fn |-> fn, op |-> "takeWhile"])
slice == \E start, end \in Counts :
    Wrap([predicate |-> NoPredicate, op |-> "slice", start |-> start, end |-> end])
sliceWith == \E start, end \in Counts, fn \in SlicePredicates :
    Wrap([predicate |-> fn, op |-> "slice", start |-> start, end |-> end])
reverse == Wrap([op |-> "reverse"])
resetIndex == Wrap([op |-> "resetIndex"])
window == \E period \in Periods : Wrap([op |-> "window", period |-> period])
rollingWindow == \E period \in Periods : Wrap([op |-> "rollingWindow", period |-> period])

Transform ==
    \/ skip \/ take \/ where \/ select \/ selectPairs \/ skipWhile \/ takeWhile
    \/ slice \/ reverse \/ resetIndex \/ window \/ rollingWindow

\* What the caller finds in the pairs it got: toPairs() of every window.
inner(val, cs) ==
    [i \in 1..Len(val) |->
        IF val[i][2].kind = "series" THEN toPairs(val[i][2].p, cs).val ELSE <<>>]

\* The call name(args) on the Series that stacks the operators p, which
\* returned r.
TerminalCall(name, args, p, r) ==
    /\ Len(results) < MaxCalls
    /\ Untouched
    /\ results' = Append(results,
            [args |-> args,
             val |-> r.val,
             inner |-> IF name = "toPairs" THEN inner(r.val, r.cs) ELSE <<>>,
             call |-> name,
             on |-> p])
    /\ cells' = Kept(r.cs)
    /\ srcIters' = r.cs[RootLog]
    /\ source' = r.cs[RootArray]
    /\ UNCHANGED <<pipe, status, seen, calls>>

\* The call name() on the Series that stacks the operators p, which returned r.
Terminal(name, p, r) == TerminalCall(name, <<>>, p, r)

ToPairs == Terminal("toPairs", pipe, toPairs(pipe, Store))
ToValues == Terminal("toValues", pipe, toValues(pipe, Store))
Count == Terminal("count", pipe, Series_count(pipe, Store))

\* first(): d is what a cursor of its own over the Series gave.
first_value(d) == [cs |-> d.cs, val |-> IF d.seq = <<>> THEN Error ELSE d.seq[1][2]]

first(p, cs) == first_value(pairsOf(p, cs))

\* A function handed to aggregate as its seed.
FunctionValue == [kind |-> "function"]

\* The callbacks handed to aggregate: by sum, min and max
\* function (prev, value) { return prev + value; }, Math.min and Math.max, and
\* by the user of the model
\* function (prev, value) { return typeof prev === "function" ? value : 2 * prev + value; }
aggregate_selector(fn, working, curValue) ==
    CASE fn = "sum" -> Num(ToNumber(working) + ToNumber(curValue))
      [] fn = "min" -> IF ToNumber(working) <= ToNumber(curValue) THEN working ELSE curValue
      [] fn = "max" -> IF ToNumber(working) >= ToNumber(curValue) THEN working ELSE curValue
      [] OTHER -> IF working = FunctionValue THEN curValue
                  ELSE Num(2 * ToNumber(working) + ToNumber(curValue))

RECURSIVE aggregate_loop(_, _, _, _)
\* while (it.moveNext()) { working = selector(working, it.getCurrent()[1]); }
aggregate_loop(fn, working, seq, i) ==
    IF i > Len(seq) THEN working
    ELSE aggregate_loop(fn, aggregate_selector(fn, working, seq[i][2]), seq, i + 1)

\* d is what the cursor of aggregate yielded.
aggregate_working(fn, seed, d) == [cs |-> d.cs, val |-> aggregate_loop(fn, seed, d.seq, 1)]

\* As aggregate_rest, but without skipping the first value.
aggregate_rest_all(p) == p

\* self.skip(1)
aggregate_rest(p) == Append(p, [n |-> 1, op |-> "skip"])

\* self.skip(1).aggregate(self.first(), selector): seed is what self.first()
\* returned.
aggregate_from_first(fn, p, seed) ==
    IF seed.val = Error THEN seed
    ELSE aggregate_working(fn, seed.val, Terminal_drain(aggregate_rest(p), seed.cs))

\* aggregate(selector) when args is empty, aggregate(seed, selector) when args
\* holds the seed.
Series_aggregate(fn, args, p, cs) ==
    IF args = <<>> THEN aggregate_from_first(fn, p, first(p, cs))
    ELSE aggregate_working(fn, args[1], Terminal_drain(p, cs))

Seeds == {Num(0), Num(1), FunctionValue}

aggregate ==
    \E args \in {<<>>} \cup {<<seed>> : seed \in Seeds} :
        TerminalCall("aggregate", args, pipe, Series_aggregate("user", args, pipe, Store))

\* firstPair() of a Series that yields the pairs seq.
firstPair(seq) == IF seq = <<>> THEN Error ELSE seq[1]

\* lastPair() of the Series that stacks the operators p: d is what stepping a
\* cursor of its own to the end gave, and the pair returned is what getCurrent()
\* of that cursor returns after the moveNext() that returned false.
lastPair(p, d) ==
    IF d.seq = <<>> THEN Error ELSE getCurrent(p, Len(p), TempCursor, d.cs)

\* As sum_none, but without asking whether the Series is empty.
sum_none_unasked(p, cs, none) ==
    Series_aggregate("sum", <<>>, p, [cs EXCEPT ![RootLog] = none.log])

\* sum(): none is what self.none() returned.
sum_none(p, cs, none) ==
    IF none.val THEN [cs |-> [cs EXCEPT ![RootLog] = none.log], val |-> Num(0)]
    ELSE Series_aggregate("sum", <<>>, p, [cs EXCEPT ![RootLog] = none.log])

sum(p, cs) == sum_none(p, cs, noneTrue(p, cs))

\* The number sum / count of javascript, kept as the two numbers.
average_quotient(total, n) == [cs |-> total.cs, val |-> [kind |-> "quotient", n |-> total.val.n, count |-> n]]

\* average(): n is what self.count() returned.
average_count(p, cs, n) ==
    IF n.val > 0 THEN average_quotient(sum(p, [cs EXCEPT ![RootLog] = n.log]), n.val)
    ELSE [cs |-> [cs EXCEPT ![RootLog] = n.log], val |-> Num(0)]

average(p, cs) == average_count(p, cs, count(p, cs))

\* first(), last(), firstPair(), lastPair(), firstIndex() and lastIndex(): d is
\* what a cursor of its own over the Series gave.
Series_edge(name, p, d) ==
    [cs |-> d.cs,
     val |-> IF d.seq = <<>> THEN Error
             ELSE CASE name = "first" -> firstPair(d.seq)[2]
                    [] name = "last" -> lastPair(p, d)[2]
                    [] name = "firstPair" -> SeriesPair(firstPair(d.seq))
                    [] name = "lastPair" -> SeriesPair(lastPair(p, d))
                    [] name = "firstIndex" -> Num(firstPair(d.seq)[1])
                    [] name = "lastIndex" -> Num(lastPair(p, d)[1])]

\* The terminal calls that return one value.
Series_call(name, p, cs) ==
    CASE name = "sum" -> sum(p, cs)
      [] name = "average" -> average(p, cs)
      [] name \in {"min", "max"} -> Series_aggregate(name, <<>>, p, cs)
      [] OTHER -> Series_edge(name, p, pairsOf(p, cs))

Calls ==
    {"sum", "average", "min", "max",
     "first", "last", "firstPair", "lastPair", "firstIndex", "lastIndex"}

Call == \E name \in Calls : Terminal(name, pipe, Series_call(name, pipe, Store))

\* As all_result, but true for a Series without values.
all_result_vacuous(n) == TRUE

\* return count > 0;
all_result(n) == n > 0

RECURSIVE all_loop(_, _, _, _)
\* while (iterator.moveNext()) { if (!predicate(pair[1])) return false; ++count; }
all_loop(fn, seq, i, n) ==
    IF i > Len(seq) THEN all_result(n)
    ELSE IF ~predicate(fn, seq[i][2]) THEN FALSE
    ELSE all_loop(fn, seq, i + 1, n + 1)

RECURSIVE any_loop(_, _, _)
\* while (iterator.moveNext()) { if (predicate(pair[1])) return true; } return false;
any_loop(fn, seq, i) ==
    IF i > Len(seq) THEN FALSE
    ELSE IF predicate(fn, seq[i][2]) THEN TRUE
    ELSE any_loop(fn, seq, i + 1)

RECURSIVE none_loop(_, _, _)
\* while (iterator.moveNext()) { if (predicate(pair[1])) return false; } return true;
none_loop(fn, seq, i) ==
    IF i > Len(seq) THEN TRUE
    ELSE IF predicate(fn, seq[i][2]) THEN FALSE
    ELSE none_loop(fn, seq, i + 1)

\* all(predicate), any([predicate]) and none([predicate]): d is what the
\* cursor of the call gave, args holds the predicate when one is given.
Series_all(args, d) == [cs |-> d.cs, val |-> all_loop(args[1], d.seq, 1, 0)]
Series_any(args, d) ==
    [cs |-> d.cs, val |-> IF args = <<>> THEN d.seq # <<>> ELSE any_loop(args[1], d.seq, 1)]
Series_none(args, d) ==
    [cs |-> d.cs, val |-> IF args = <<>> THEN d.seq = <<>> ELSE none_loop(args[1], d.seq, 1)]

all == \E fn \in Predicates :
    TerminalCall("all", <<fn>>, pipe, Series_all(<<fn>>, pairsOf(pipe, Store)))
any == \E args \in {<<>>} \cup {<<fn>> : fn \in Predicates} :
    TerminalCall("any", args, pipe, Series_any(args, pairsOf(pipe, Store)))
none == \E args \in {<<>>} \cup {<<fn>> : fn \in Predicates} :
    TerminalCall("none", args, pipe, Series_none(args, pairsOf(pipe, Store)))

\* where, skipWhile, skipUntil, takeWhile and takeUntil with a predicate that
\* may look at the index.
UserPredicates == Predicates \cup IndexPredicates
whereIndex == \E fn \in UserPredicates : Wrap([fn |-> fn, op |-> "where"])
skipWhileIndex == \E fn \in UserPredicates : Wrap([fn |-> fn, op |-> "skipWhile"])
takeWhileIndex == \E fn \in UserPredicates : Wrap([fn |-> fn, op |-> "takeWhile"])
skipUntil == \E fn \in UserPredicates : Wrap([fn |-> Until(fn), op |-> "skipWhile"])
takeUntil == \E fn \in UserPredicates : Wrap([fn |-> Until(fn), op |-> "takeWhile"])

\* parseDates takes an optional format string.
FormatStrings == {Undefined, Str("YYYY")}

parseInts == Wrap([op |-> "parseInts"])
parseFloats == Wrap([op |-> "parseFloats"])
parseDates == \E formatString \in FormatStrings :
    Wrap([formatString |-> formatString, op |-> "parseDates"])

\* A selector threw while the cursor of a terminal call was stepped: d is what
\* the cursor gave, with Error where getCurrent() threw.
throws(d) == \E k \in 1..Len(d.seq) : d.seq[k][2] = Error

\* The call name() on the current Series ends with the exception.
Thrown(name, d) ==
    /\ Len(results) < MaxCalls
    /\ Untouched
    /\ results' = Append(results,
            [args |-> <<>>, val |-> Error, inner |-> <<>>, call |-> name, on |-> pipe])
    /\ cells' = Kept(d.cs)
    /\ srcIters' = d.cs[RootLog]
    /\ UNCHANGED <<source, pipe, status, seen, calls>>

ParsedToPairs ==
    IF throws(Terminal_drain(pipe, Store)) THEN Thrown("toPairs", Terminal_drain(pipe, Store))
    ELSE ToPairs

ParsedToValues ==
    IF throws(Terminal_drain(pipe, Store)) THEN Thrown("toValues", Terminal_drain(pipe, Store))
    ELSE ToValues

\* A client of the cursor protocol: getIterator() on the pipeline, then
\* moveNext() and, after a true answer, getCurrent().  cs is the store that
\* getIterator() left.
ClientOpened(c, cs) ==
    /\ cells' = Kept(cs)
    /\ srcIters' = cs[RootLog]
    /\ source' = cs[RootArray]
    /\ status' = [status EXCEPT ![c] = "before"]
    /\ UNCHANGED <<pipe, seen, results, calls>>

ClientGetIterator(c) ==
    /\ status[c] = "closed"
    \* the two clients are interchangeable: client 1 is the first to ask
    /\ c = "client2" => status["client1"] # "closed"
    /\ results = <<>>
    /\ ClientOpened(c, getIterator(pipe, Len(pipe), c, Store))

\* r is the answer of moveNext().
ClientMoved(c, r) ==
    /\ status' = [status EXCEPT ![c] = IF r.ok THEN "live" ELSE "done"]
    /\ seen' = IF r.ok
               THEN [seen EXCEPT ![c] = Append(@, getCurrent(pipe, Len(pipe), c, r.cs))]
               ELSE seen
    /\ cells' = Kept(r.cs)
    /\ srcIters' = r.cs[RootLog]
    /\ source' = r.cs[RootArray]
    /\ UNCHANGED <<pipe, results, calls>>

ClientMoveNext(c) ==
    /\ status[c] \in {"before", "live"}
    /\ ClientMoved(c, moveNext(pipe, Len(pipe), c, Store))

\* last(), lastPair() and lastIndex() step by step, on the cursor c that
\* ClientGetIterator gave them.  r is the answer of moveNext(): the first false
\* answer throws "No values in Series.", a later one ends the loop.
last_moved(c, r) ==
    /\ cells' = Kept(r.cs)
    /\ srcIters' = r.cs[RootLog]
    /\ source' = r.cs[RootArray]
    /\ status' = [status EXCEPT ![c] = IF r.ok THEN "live"
                                       ELSE IF status[c] = "before" THEN "threw"
                                       ELSE "ended"]
    /\ UNCHANGED <<pipe, seen, results, calls>>

\* if (!iterator.moveNext()) throw ...; while (iterator.moveNext()) { ; }
last_moveNext(c) ==
    /\ status[c] \in {"before", "live"}
    /\ last_moved(c, moveNext(pipe, Len(pipe), c, Store))

\* The loop of last() has ended: moveNext() has returned false.
last_reads(c) == status[c] = "ended"

\* return iterator.getCurrent();
last_getCurrent(c) ==
    /\ last_reads(c)
    /\ seen' = [seen EXCEPT ![c] = Append(@, getCurrent(pipe, Len(pipe), c, Store))]
    /\ status' = [status EXCEPT ![c] = IF status[c] = "live" THEN "live" ELSE "returned"]
    /\ UNCHANGED <<source, pipe, cells, results, srcIters, calls>>

\* An eager transformation: the call by consumes the current Series (r is what
\* its toPairs() returned) and wraps the array of pairs output; log is what the
\* user callbacks were handed.
Capture(r, out, by, fn) ==
    /\ Len(pipe) < MaxDepth
    /\ Untouched
    /\ pipe' = Append(pipe, [fn |-> fn, op |-> "array", pairs |-> out.output, by |-> by])
    /\ cells' = Kept(r.cs)
    /\ srcIters' = r.cs[RootLog]
    /\ source' = r.cs[RootArray]
    /\ calls' = out.log
    /\ UNCHANGED <<status, seen, results>>

\* The array an eager transformation built and the callback arguments it logged.
Built(output, log) == [log |-> log, output |-> output]

insertPair_pairs(pair, r) ==
    Capture(r, Built(<<pair>> \o r.val, calls), "insertPair", "none")

insertPair(pair) == insertPair_pairs(pair, toPairs(pipe, Store))

appendPair_pairs(pair, r) ==
    Capture(r, Built(Append(r.val, pair), calls), "appendPair", "none")

appendPair(pair) == appendPair_pairs(pair, toPairs(pipe, Store))

\* The user callbacks the model passes to distinct: none (the default selector,
\* function (value) { return value; }) and function (v) { return v === 0; }
DistinctSelectors == {"identity", "isZero"}

distinctSelector(fn, value) == IF fn = "identity" THEN value ELSE value = Num(0)

RECURSIVE distinct_output(_, _, _, _, _)
\* The loop of distinct: considered holds the positions already dealt with.
distinct_output(input, fn, i, considered, output) ==
    IF i > Len(input) THEN output
    ELSE IF i \in considered THEN distinct_output(input, fn, i + 1, considered, output)
    ELSE distinct_output(input, fn, i + 1,
            considered \cup {i}
                \cup {j \in (i + 1)..Len(input) :
                        j \notin considered
                        /\ distinctSelector(fn, input[j][2]) = distinctSelector(fn, input[i][2])},
            Append(output, input[i]))

\* r is what self.toPairs() returned.
distinct_input(fn, r) ==
    Capture(r, Built(distinct_output(r.val, fn, 1, {}, <<>>), calls), "distinct", fn)

distinct == \E fn \in DistinctSelectors : distinct_input(fn, toPairs(pipe, Store))

\* The user callbacks the model passes to variableWindow, over the values of a
\* Series and over the field a of the rows of a DataFrame:
\* function (a, b) { return a === b; } and function (a, b) { return a <= b; }
Comparers == {"same", "lessOrEqual"}

comparerKey(value) == IF value.kind = "row" THEN value.f["a"] ELSE value

comparer(fn, a, b) ==
    IF fn = "same" THEN comparerKey(a) = comparerKey(b)
    ELSE ToNumber(comparerKey(a)) <= ToNumber(comparerKey(b))

\* The arguments variableWindow hands to the comparer.
Series_variableWindow_args(prevPair, curPair) == <<curPair[2], prevPair[2]>>
DataFrame_variableWindow_args(prevPair, curPair) == <<prevPair[2], curPair[2]>>

variableWindow_args(by, prevPair, curPair) ==
    IF by = "Series.variableWindow" THEN Series_variableWindow_args(prevPair, curPair)
    ELSE DataFrame_variableWindow_args(prevPair, curPair)

RECURSIVE variableWindow_loop(_, _, _, _, _, _, _, _)
\* The loop of variableWindow over input[i], i = 1 .. input.length - 1 (here
\* i + 1); the window index is the number of windows pushed so far.
variableWindow_loop(self, input, by, fn, i, startIndex, takeAmount, out) ==
    LET flushed == Append(out.output,
                          <<Len(out.output), SeriesValue(skipTake(self, startIndex, takeAmount))>>)
    IN  IF i > Len(input)
        THEN IF takeAmount > 0 THEN Built(flushed, out.log) ELSE out
        ELSE LET args == variableWindow_args(by, input[i - 1], input[i])
                 log == Append(out.log, args)
             IN  IF ~comparer(fn, args[1], args[2])
                 THEN variableWindow_loop(self, input, by, fn, i + 1, i - 1, 1,
                                          Built(flushed, log))
                 ELSE variableWindow_loop(self, input, by, fn, i + 1, startIndex,
                                          takeAmount + 1, Built(out.output, log))

\* r is what var input = self.toPairs() returned.
variableWindow_input(by, fn, r) ==
    Capture(r,
            IF Len(r.val) > 0
            THEN variableWindow_loop(pipe, r.val, by, fn, 2, 0, 1, Built(<<>>, <<>>))
            ELSE Built(<<>>, <<>>),
            by, fn)

variableWindow(by, fn) == variableWindow_input(by, fn, toPairs(pipe, Store))

\* Whether the root holds the rows of a DataFrame or the values of a Series.
IsDataFrame == \A i \in 1..Len(source) : source[i][2].kind = "row"
IsSeries == \A i \in 1..Len(source) : source[i][2].kind # "row"

Series_variableWindow ==
    \E fn \in Comparers : IsSeries /\ variableWindow("Series.variableWindow", fn)

DataFrame_variableWindow ==
    \E fn \in Comparers : IsDataFrame /\ variableWindow("DataFrame.variableWindow", fn)

\* As baked, for a bake() that never looks at the flag.
baked_never(p) == FALSE

\* self._baked: set on the Series or DataFrame that bake() returned.
baked(p) == p # <<>> /\ Top(p).op = "array" /\ Top(p).by = "bake"

\* r is what self.toPairs() returned: the new pipeline is an ArrayIterator over it.
bake_pairs(r) == Capture(r, Built(r.val, calls), "bake", "none")

\* Already baked, just return self.
bake_self == TerminalCall("bake", <<>>, pipe, [cs |-> Store, val |-> SeriesValue(pipe)])

bake == IF baked(pipe) THEN bake_self ELSE bake_pairs(toPairs(pipe, Store))

Series_bake == IsSeries /\ bake
DataFrame_bake == IsDataFrame /\ bake

\* new DataFrame(config): the pairs the cursor of the new frame yields.  A config
\* with an iterable is used as it is; one with neither rows nor columns gives an
\* EmptyIterator; rows given as an array are indexed 0, 1, 2, ...
DataFrame(config) ==
    IF "iterable" \in DOMAIN config THEN config.iterable
    ELSE IF "rows" \notin DOMAIN config /\ "columns" \notin DOMAIN config THEN <<>>
    ELSE DefaultIndexed(config.rows)

\* The user callbacks the model passes to join: the keys are the values,
\* function (v) { return v; }, and the result selector is
\* function (outer, inner) { return { outer: outer, inner: inner }; }
resultSelector(outerValue, innerValue) ==
    Row([name \in {"outer", "inner"} |-> IF name = "outer" THEN outerValue ELSE innerValue])

RECURSIVE join_joined(_, _, _, _, _)
\* linq join: for every outer pair in turn, the result for every inner pair of
\* the same key, inner pairs in their order.
join_joined(outerPairs, innerPairs, i, j, joined) ==
    IF i > Len(outerPairs) THEN joined
    ELSE IF j > Len(innerPairs) THEN join_joined(outerPairs, innerPairs, i + 1, 1, joined)
    ELSE join_joined(outerPairs, innerPairs, i, j + 1,
            IF outerPairs[i][2] = innerPairs[j][2]
            THEN Append(joined, resultSelector(outerPairs[i][2], innerPairs[j][2]))
            ELSE joined)

\* r is what outer.toPairs() returned, innerPairs what inner.toPairs() returned.
join_frame(innerPairs, r) ==
    /\ Len(pipe) < MaxDepth
    /\ Untouched
    /\ pipe' = Append(pipe,
            [fn |-> "none",
             op |-> "array",
             pairs |-> DataFrame([values |-> join_joined(r.val, innerPairs, 1, 1, <<>>)]),
             inner |-> innerPairs,
             by |-> "join"])
    /\ cells' = Kept(r.cs)
    /\ srcIters' = r.cs[RootLog]
    /\ source' = r.cs[RootArray]
    /\ UNCHANGED <<status, seen, results, calls>>

\* The inner Series of a join: new Series({ values: [...] }) over numbers.
InnerSeries == {DefaultIndexed(values) : values \in ArraysOf({Num(n) : n \in 1..MaxInner})}

join == \E innerSeries \in InnerSeries : join_frame(innerSeries, toPairs(pipe, Store))

\* The user callbacks the model passes to fillGaps:
\* function (pairA, pairB) { return pairB[0] - pairA[0] > 1; } and a generator
\* of the pairs [pairA[0] + 1, pairA[1]], .., [pairB[0] - 1, pairA[1]].
fillGaps_predicate(pairA, pairB) == pairB[1] - pairA[1] > 1

fillGaps_generator(pairA, pairB) ==
    [i \in 1..(pairB[1] - pairA[1] - 1) |-> <<pairA[1] + i, pairA[2]>>]

\* The selector fillGaps hands to selectManyPairs, applied to a window.
fillGaps_selector(pairA, pairB) ==
    IF ~fillGaps_predicate(pairA, pairB) THEN <<pairA>>
    ELSE <<pairA>> \o fillGaps_generator(pairA, pairB)

RECURSIVE fillGaps_selectManyPairs(_, _, _, _)
\* selectManyPairs over the windows: the pairs the selector returns for each
\* window in turn.
fillGaps_selectManyPairs(windows, cs, i, out) ==
    IF i > Len(windows) THEN out
    ELSE fillGaps_selectManyPairs(windows, cs, i + 1,
            out \o fillGaps_selector(firstPair(pairsOf(windows[i][2].p, cs).seq),
                                     lastPair(windows[i][2].p, pairsOf(windows[i][2].p, cs))))

\* last is what self.lastPair() returned, d the windows of self.rollingWindow(2)
\* that the toPairs() of appendPair stepped through; each window was asked for
\* its first and its last pair.
fillGaps_appendPair(last, d) ==
    IF last = Error
    THEN /\ Len(results) < MaxCalls
         /\ Untouched
         /\ results' = Append(results,
                [args |-> <<>>, val |-> Error, inner |-> <<>>, call |-> "fillGaps", on |-> pipe])
         /\ srcIters' = srcIters + 1
         /\ UNCHANGED <<source, pipe, cells, status, seen, calls>>
    ELSE /\ Len(pipe) < MaxDepth
         /\ Untouched
         /\ results = <<>>
         /\ pipe' = Append(pipe,
                [fn |-> "none",
                 op |-> "array",
                 pairs |-> Append(SelectSeq(fillGaps_selectManyPairs(d.seq, d.cs, 1, <<>>),
                                            LAMBDA pair : pair[2] # Undefined),
                                  last),
                 by |-> "fillGaps"])
         /\ srcIters' = d.cs[RootLog] + 2 * Len(d.seq) + 1
         /\ UNCHANGED <<source, cells, status, seen, results, calls>>

fillGaps ==
    fillGaps_appendPair(lastPair(pipe, pairsOf(pipe, Store)),
                        Terminal_drain(Append(pipe, [op |-> "rollingWindow", period |-> 2]), Store))

\* tail(values) is self.skip(self.count() - values): the count n is taken when
\* tail is called.
tail_skip(skipped, n) ==
    /\ Len(pipe) < MaxDepth
    /\ Untouched
    /\ results = <<>>
    /\ pipe' = Append(pipe, [skipped EXCEPT !.n = n.val - @])
    /\ cells' = [cells EXCEPT ![IterableScope][Len(pipe) + 2] = IterableInit(skipped)]
    /\ srcIters' = n.log
    /\ UNCHANGED <<source, status, seen, results, calls>>

tail ==
    \E values \in Counts : tail_skip([n |-> values, op |-> "skip"], count(pipe, Store))

\* orderBy / orderByDescending: a sorted Series over the current one, holding a
\* batch of one sort command.
SortCommand(sortMethod, fn) == [sortSelector |-> fn, sortMethod |-> sortMethod]

orderBy ==
    \E fn \in SortSelectors :
        Wrap([op |-> "orderBy", batch |-> <<SortCommand("orderBy", fn)>>])

orderByDescending ==
    \E fn \in SortSelectors :
        Wrap([op |-> "orderBy", batch |-> <<SortCommand("orderByDescending", fn)>>])

\* thenBy / thenByDescending of a sorted Series: a sorted Series over the same
\* source, holding the batch extended by one sort command.
orderThenBy(nextSortMethod) ==
    \E fn \in SortSelectors :
        /\ TopOp(pipe) = "orderBy"
        /\ Len(Top(pipe).batch) < MaxBatch
        /\ Untouched
        /\ results = <<>>
        /\ pipe' = [pipe EXCEPT ![Len(pipe)].batch = Append(@, SortCommand(nextSortMethod, fn))]
        /\ UNCHANGED <<source, cells, status, seen, results, srcIters, calls>>

thenBy == orderThenBy("thenBy")
thenByDescending == orderThenBy("thenByDescending")

\* thenBy / thenByDescending where the Series they were called on stays in the
\* model: the new sorted Series is the operator "thenBy" stacked on the sorted
\* Series it came from, and reads the source of that Series (the operators two
\* levels down).  extended holds the array batch after the call and the array
\* extendedBatch of the new Series.

\* As orderThenBy_concat, but pushing the command onto batch.
orderThenBy_push(batch, command) ==
    [batch |-> Append(batch, command), extendedBatch |-> Append(batch, command)]

\* var extendedBatch = batch.concat([{ sortSelector: ..., sortMethod: ... }]);
orderThenBy_concat(batch, command) ==
    [batch |-> batch, extendedBatch |-> Append(batch, command)]

\* from is the position in pipe of the sorted Series thenBy is called on.
orderThenBy_sorted(from, extended) ==
    /\ from >= 1 /\ from < MaxDepth
    /\ pipe[from].op = "orderBy"
    /\ Untouched
    /\ pipe' = Append([k \in 1..from |->
                          IF k = from THEN [pipe[k] EXCEPT !.batch = extended.batch]
                          ELSE pipe[k]],
                      [op |-> "thenBy", batch |-> extended.extendedBatch])
    /\ UNCHANGED <<source, cells, status, seen, results, srcIters, calls>>

\* thenBy or thenByDescending called on the sorted Series the current one came
\* from, or on the current one when it is the result of orderBy.
orderThenBy_on(nextSortMethod) ==
    \E fn \in SortSelectors, from \in {Len(pipe) - 1, Len(pipe)} :
        /\ from >= 1
        /\ from = Len(pipe) - 1 => TopOp(pipe) = "thenBy"
        /\ orderThenBy_sorted(from,
                orderThenBy_concat(pipe[from].batch, SortCommand(nextSortMethod, fn)))

thenBy_on == orderThenBy_on("thenBy")
thenByDescending_on == orderThenBy_on("thenByDescending")

Next ==
    \/ Transform
    \/ ToPairs
    \/ ToValues

Spec == Init /\ [][Next]_vars

NextCursors ==
    \/ Transform
    \/ \E c \in Clients : ClientGetIterator(c)
    \/ \E c \in Clients : ClientMoveNext(c)

SpecCursors == Init /\ [][NextCursors]_vars


-----------------------------------------------------------------------------
(* Properties.                                                             *)

Min(a, b) == IF a < b THEN a ELSE b
Max(a, b) == IF a > b THEN a ELSE b

\* The pairs a fresh cursor over p yields when it is advanced alone.
Raw(p) == pairsOf(p, Store).seq


RECURSIVE Ascending(_)
\* The elements of a finite set of integers, smallest first.
Ascending(S) ==
    IF S = {} THEN <<>>
    ELSE LET m == CHOOSE x \in S : \A y \in S : x <= y
         IN  <<m>> \o Ascending(S \ {m})

\* C1: two toPairs() calls on the same pipeline return the same pairs, and for a
\* pipeline of windows the same pairs inside each window.
RestartLaw ==
    \A i, j \in 1..Len(results) :
        (results[i].call = "toPairs" /\ results[j].call = "toPairs"
                /\ results[i].on = results[j].on)
            => /\ results[i].val = results[j].val
               /\ results[i].inner = results[j].inner

RestartWitness ==
    /\ Len(results) = 2
    /\ results[1].call = "toPairs" /\ results[2].call = "toPairs"
    /\ results[1].on = pipe /\ results[2].on = pipe
    /\ TopOp(pipe) = "window" /\ Len(pipe) = 2
    /\ Len(results[2].val) = 2
    /\ results[2].inner[1] # <<>>

\* C3: under any interleaving, a cursor has yielded exactly the first pairs of
\* the sequence a cursor advanced alone yields, and all of it once it is done.
CursorIndependence ==
    LET alone == Raw(pipe)
    IN  \A c \in Clients :
            status[c] # "closed" =>
                /\ Len(seen[c]) <= Len(alone)
                /\ seen[c] = SubSeq(alone, 1, Len(seen[c]))
                /\ status[c] = "done" => seen[c] = alone

CursorIndependenceWitness ==
    /\ status["client1"] = "live" /\ status["client2"] = "done"
    /\ Len(seen["client1"]) = 1 /\ Len(seen["client2"]) = 2
    /\ HasOp("skipWhile") /\ HasOp("window")

WindowContents ==
    \A i \in 1..Len(results) :
        (results[i].call = "toPairs" /\ TopOp(results[i].on) = "window") =>
            LET period == Top(results[i].on).period
                raw == Raw(Prefix(results[i].on))
                n == Len(raw)
                val == results[i].val
            IN  /\ Len(val) = (n + period - 1) \div period
                /\ \A k \in 0..(Len(val) - 1) :
                      /\ val[k + 1][1] = k
                      /\ Raw(val[k + 1][2].p)
                           = SubSeq(raw, k * period + 1, Min((k + 1) * period, n))

WindowContentsWitness ==
    /\ TopOp(pipe) = "window" /\ Top(pipe).period = 2
    /\ Len(Raw(Prefix(pipe))) = 3
    /\ Len(results) >= 1 /\ results[1].call = "toPairs"
    /\ Len(results[1].val) = 2
    /\ Len(Raw(results[1].val[2][2].p)) = 1

\* C7: over n pairs rollingWindow(p) yields max(0, n-p+1) windows; window k has
\* index k and holds the source pairs k .. k+p-1.
RollingWindowContents ==
    \A i \in 1..Len(results) :
        (results[i].call = "toPairs" /\ TopOp(results[i].on) = "rollingWindow") =>
            LET period == Top(results[i].on).period
                raw == Raw(Prefix(results[i].on))
                n == Len(raw)
                val == results[i].val
            IN  /\ Len(val) = Max(0, n - period + 1)
                /\ \A k \in 0..(Len(val) - 1) :
                      /\ val[k + 1][1] = k
                      /\ Raw(val[k + 1][2].p) = SubSeq(raw, k + 1, k + period)

RollingWindowContentsWitness ==
    /\ TopOp(pipe) = "rollingWindow" /\ Top(pipe).period = 2
    /\ Len(Raw(Prefix(pipe))) = 3
    /\ Len(results) >= 1 /\ results[1].call = "toPairs"
    /\ Len(results[1].val) = 2


-----------------------------------------------------------------------------
(* slice over a series with an index of its own:                           *)
(* new Series({ index: [...], values: [...] }).                            *)

MaxIndex == 3

IndexedArrays ==
    UNION {[1..n -> (0..MaxIndex) \X {Num(1), Undefined}] : n \in 0..MaxLen}

InitSlice ==
    /\ source \in IndexedArrays
    /\ InitRest

NextSlice ==
    \/ slice
    \/ ToPairs

SpecSlice == InitSlice /\ [][NextSlice]_vars

InRange(op, pairs) ==
    SelectSeq(pairs, LAMBDA pair : op.start <= pair[1] /\ pair[1] < op.end)

IndexAscending(pairs) ==
    \A i, j \in 1..Len(pairs) : i < j => pairs[i][1] <= pairs[j][1]

\* C10 as claimed: for every series, toPairs() of slice(start, end) is the pairs
\* with start <= index < end, in source order.
SliceIsIndexRange ==
    \A i \in 1..Len(results) :
        TopOp(results[i].on) = "slice" =>
            results[i].val
                = InRange(Top(results[i].on), toPairs(Prefix(results[i].on), Store).val)

\* C10 as amended: the same, for a series whose indexes are in ascending order.
SliceIsIndexRangeWhenAscending ==
    \A i \in 1..Len(results) :
        (TopOp(results[i].on) = "slice" /\ IndexAscending(Raw(Prefix(results[i].on)))) =>
            results[i].val
                = InRange(Top(results[i].on), toPairs(Prefix(results[i].on), Store).val)

SliceWitness ==
    /\ pipe = <<[predicate |-> NoPredicate, op |-> "slice", start |-> 1, end |-> 2]>>
    /\ Len(results) = 1
    /\ Len(source) = 3 /\ IndexAscending(source)
    /\ source[1][1] = 0 /\ source[3][1] = 2
    /\ Len(results[1].val) = 1


-----------------------------------------------------------------------------
(* A DataFrame over an array of pairs (a baked frame): the values are      *)
(* records over the columns a and b.                                       *)

ColumnNames == {"a", "b"}

Rows == {Row(f) : f \in UNION {[names -> {Num(1)}] : names \in SUBSET ColumnNames}}

dropSeries ==
    \E columns \in SUBSET ColumnNames :
        columns # {} /\ Wrap([op |-> "dropSeries", columns |-> columns])

keepSeries ==
    \E columns \in SUBSET ColumnNames :
        columns # {} /\ Wrap([op |-> "keepSeries", columns |-> columns])

Prefixes == {SubSeq(pipe, 1, n) : n \in 0..Len(pipe)}

\* toPairs() on the current frame or on one of the frames it was built on.
ToPairsOn == \E p \in Prefixes : Terminal("toPairs", p, toPairs(p, Store))

InitFrame ==
    /\ source \in {DefaultIndexed(values) : values \in ArraysOf(Rows)}
    /\ InitRest

\* The pair the model inserts or appends.
NewRow == <<MaxLen, Row([name \in ColumnNames |-> Num(1)])>>

NextFrame ==
    \/ reverse
    \/ insertPair(NewRow)
    \/ appendPair(NewRow)
    \/ dropSeries
    \/ keepSeries
    \/ ToPairsOn

SpecFrame == InitFrame /\ [][NextFrame]_vars

\* C4: building and consuming reverse, insertPair, appendPair, dropSeries or
\* keepSeries leaves every pipeline it was built on yielding the pairs, and the
\* fields in every record, that it yielded before.
SourceNeverMutated ==
    \A i \in 1..Len(results) :
        results[i].on \in Prefixes => results[i].val = toPairs(results[i].on, Store).val

SourceNeverMutatedWitness ==
    /\ pipe = <<[op |-> "dropSeries", columns |-> {"a"}], [op |-> "reverse"]>>
    /\ Len(source) = 2
    /\ "a" \in DOMAIN source[1][2].f
    /\ Len(results) = 2
    /\ results[1].on = <<>> /\ results[1].val = source
    /\ results[2].on = pipe
    /\ results[2].val = <<<<1, Row(Restrict(source[2][2].f, DOMAIN source[2][2].f \ {"a"}))>>,
                          <<0, Row(Restrict(source[1][2].f, DOMAIN source[1][2].f \ {"a"}))>>>>

-----------------------------------------------------------------------------
(* Laziness: the transformations of a Series, lazy and eager, and the      *)
(* cursors they request from the root.                                     *)

\* The pair the model inserts into or appends to a Series.
NewPair == <<MaxLen, Num(1)>>

NextLazy ==
    \/ Transform
    \/ orderBy
    \/ insertPair(NewPair)
    \/ appendPair(NewPair)
    \/ distinct
    \/ Series_variableWindow
    \/ tail
    \/ ToPairs
    \/ Count

SpecLazy == Init /\ [][NextLazy]_vars

\* C2 as claimed: until a terminal call is made, no cursor has been requested
\* from the root, whatever transformations were called.
LazyUntilTerminal == results = <<>> => srcIters = 0

-----------------------------------------------------------------------------
(* variableWindow over a Series of numbers and over a DataFrame of rows    *)
(* with the column a.                                                      *)

MaxValue == 2

WindowRows == {Row([name \in {"a"} |-> Num(n)]) : n \in 1..MaxValue}

InitVariableWindow ==
    /\ source \in {DefaultIndexed(values) : values \in ArraysOf({Num(n) : n \in 1..MaxValue})}
                \cup {DefaultIndexed(values) : values \in ArraysOf(WindowRows)}
    /\ InitRest

NextVariableWindow ==
    \/ skip
    \/ take
    \/ Series_variableWindow
    \/ DataFrame_variableWindow
    \/ ToPairs

SpecVariableWindow == InitVariableWindow /\ [][NextVariableWindow]_vars

\* The positions of input where a window starts when eq(previous, current)
\* decides: the first, and every one whose value eq separates from its predecessor.
WindowStarts(input, fn) ==
    IF input = <<>> THEN <<>>
    ELSE Ascending({1} \cup {i \in 2..Len(input) : ~comparer(fn, input[i - 1][2], input[i][2])})

IsVariableWindow(p) ==
    /\ TopOp(p) = "array"
    /\ Top(p).by \in {"Series.variableWindow", "DataFrame.variableWindow"}

\* What C8 says of the Series or DataFrame p that variableWindow returned.
VariableWindowAsClaimed(p) ==
    LET input == toPairs(Prefix(p), Store).val
        starts == WindowStarts(input, Top(p).fn)
        windows == Top(p).pairs
    IN  /\ calls = [i \in 1..(Len(input) - 1) |-> <<input[i][2], input[i + 1][2]>>]
        /\ Len(windows) = Len(starts)
        /\ \A k \in 1..Len(windows) :
              /\ windows[k][1] = k - 1
              /\ Raw(windows[k][2].p)
                   = SubSeq(input, starts[k],
                            IF k < Len(starts) THEN starts[k + 1] - 1 ELSE Len(input))

\* C8 as claimed: Series and DataFrame variableWindow(eq) call eq(previous value,
\* current value) for every value after the first; a pair joins the current
\* window when eq says true and starts the next when it says false; the windows
\* are indexed 0, 1, 2, ...
VariableWindowComparesPreviousWithCurrent ==
    IsVariableWindow(pipe) => VariableWindowAsClaimed(pipe)

\* The same for DataFrame.variableWindow alone.
DataFrameVariableWindowComparesPreviousWithCurrent ==
    (IsVariableWindow(pipe) /\ Top(pipe).by = "DataFrame.variableWindow")
        => VariableWindowAsClaimed(pipe)

-----------------------------------------------------------------------------
(* Sorting a Series of numbers, some of them undefined.                    *)

MaxSortValue == 3

SortValues == {Undefined} \cup {Num(n) : n \in 0..MaxSortValue}

InitSort ==
    /\ source \in {DefaultIndexed(values) : values \in ArraysOf(SortValues)}
    /\ InitRest

NextSort ==
    \/ orderBy
    \/ orderByDescending
    \/ thenBy
    \/ thenByDescending
    \/ ToPairs
    \/ Count

SpecSort == InitSort /\ [][NextSort]_vars

\* Whether pair x comes before pair y in the order of the batch, or with it.
RECURSIVE KeysInOrder(_, _, _, _)
KeysInOrder(batch, level, x, y) ==
    IF level > Len(batch) THEN TRUE
    ELSE LET kx == sortSelector(batch[level].sortSelector, x[2])
             ky == sortSelector(batch[level].sortSelector, y[2])
             descending == batch[level].sortMethod \in {"orderByDescending", "thenByDescending"}
         IN  IF kx = ky THEN KeysInOrder(batch, level + 1, x, y)
             ELSE IF descending THEN kx > ky ELSE kx < ky

KeysEqual(batch, x, y) ==
    \A level \in 1..Len(batch) :
        sortSelector(batch[level].sortSelector, x[2]) = sortSelector(batch[level].sortSelector, y[2])

\* sorted holds the pairs of from, each once, in the order of the batch, pairs
\* with equal keys in the order they have in from.
IsStableSort(sorted, from, batch) ==
    /\ Len(sorted) = Len(from)
    /\ \E perm \in [1..Len(from) -> 1..Len(from)] :
          /\ \A i, j \in 1..Len(from) : i # j => perm[i] # perm[j]
          /\ \A i \in 1..Len(from) : sorted[i] = from[perm[i]]
          /\ \A i, j \in 1..Len(from) :
                i < j => /\ KeysInOrder(batch, 1, sorted[i], sorted[j])
                         /\ KeysEqual(batch, sorted[i], sorted[j]) => perm[i] < perm[j]

\* C9 as claimed: a cursor over the sorted Series yields the pairs a cursor over
\* the source yields, each once with its index, ordered by the accumulated keys,
\* each key in its direction, pairs with equal keys in source order.
OrderByIsStablePermutation ==
    \A i \in 1..Len(results) :
        TopOp(results[i].on) = "orderBy" =>
            LET from == Raw(Prefix(results[i].on))
                batch == Top(results[i].on).batch
            IN  /\ results[i].call = "count" => results[i].val = Len(from)
                /\ results[i].call = "toPairs" =>
                      IsStableSort(results[i].val,
                                   SelectSeq(from, LAMBDA pair : pair[2] # Undefined), batch)

\* What the sorted Series does yield: the pairs of the source whose value is not
\* undefined, in the stable order of the batch.
OrderBySortsDefinedPairs ==
    \A i \in 1..Len(results) :
        TopOp(results[i].on) = "orderBy" =>
            LET from == SelectSeq(Raw(Prefix(results[i].on)), LAMBDA pair : pair[2] # Undefined)
                batch == Top(results[i].on).batch
            IN  /\ results[i].call = "count" => results[i].val = Len(from)
                /\ results[i].call = "toPairs" => IsStableSort(results[i].val, from, batch)

-----------------------------------------------------------------------------
(* distinct over a Series of numbers, some of them undefined.              *)

NextDistinct ==
    \/ skip
    \/ distinct
    \/ ToPairs

SpecDistinct == InitSort /\ [][NextDistinct]_vars

IsDistinct(p) == TopOp(p) = "array" /\ Top(p).by = "distinct"

\* The pairs of from that are the first of their key, in the order of from.
FirstOfEachKey(from, fn) ==
    LET firsts == Ascending({n \in 1..Len(from) :
                    \A j \in 1..(n - 1) :
                        distinctSelector(fn, from[j][2]) # distinctSelector(fn, from[n][2])})
    IN  [i \in 1..Len(firsts) |-> from[firsts[i]]]

\* C11 as claimed: distinct(keyFn) emits, in source order, exactly the first
\* pair of each key among the pairs the source yields.
DistinctKeepsFirstOfEachKey ==
    IsDistinct(pipe) =>
        Top(pipe).pairs = FirstOfEachKey(Raw(Prefix(pipe)), Top(pipe).fn)

\* What distinct does emit: the first pair of each key among the source pairs
\* whose value is not undefined.
DistinctKeepsFirstDefinedOfEachKey ==
    IsDistinct(pipe) =>
        Top(pipe).pairs
            = FirstOfEachKey(SelectSeq(Raw(Prefix(pipe)), LAMBDA pair : pair[2] # Undefined),
                             Top(pipe).fn)

-----------------------------------------------------------------------------
(* The column names of a DataFrame.  An operator that builds a DataFrame   *)
(* with column names of its own keeps them in its field columnNames.       *)

\* The column names the model passes to the operators, and the arrays of them.
Names == ColumnNames \cup {"c"}
NameArrays == UNION {[1..n -> Names] : n \in 1..2}
Elements(array) == {array[i] : i \in 1..Len(array)}

\* Object.keys of a row: the fields in the order a, b.
ObjectKeys(row) == SelectSeq(<<"a", "b">>, LAMBDA name : name \in DOMAIN row.f)

\* new DataFrame({ rows: [...] }): the column names are the fields of the first row.
determineColumnNamesFromObjectRows(rows) ==
    IF rows = <<>> THEN <<>> ELSE ObjectKeys(rows[1][2])

RECURSIVE getColumnNames(_)
\* self._columnNames of the DataFrame that stacks the operators p.
getColumnNames(p) ==
    IF p = <<>> THEN determineColumnNamesFromObjectRows(source)
    ELSE IF "columnNames" \in DOMAIN Top(p) THEN Top(p).columnNames
    ELSE getColumnNames(Prefix(p))

\* The index of the first column called columnName, -1 when there is none.
getColumnIndex(columnNames, columnName) ==
    IF columnName \notin Elements(columnNames) THEN -1
    ELSE (CHOOSE i \in 1..Len(columnNames) :
            /\ columnNames[i] = columnName
            /\ \A j \in 1..(i - 1) : columnNames[j] # columnName) - 1

\* dropSeries(columnOrColumns): the names that are not in columnOrColumns.
dropSeries_columnNames(existing, columnOrColumns) ==
    Wrap([op |-> "dropSeries",
          columns |-> Elements(columnOrColumns),
          columnNames |-> SelectSeq(existing, LAMBDA name : name \notin Elements(columnOrColumns))])

\* keepSeries(columnOrColumns): columnNames: columnOrColumns.
keepSeries_columnNames(columnOrColumns) ==
    Wrap([op |-> "keepSeries",
          columns |-> Elements(columnOrColumns),
          columnNames |-> columnOrColumns])

\* setSeries(columnName, data): a new last column, or the column replaced.
setSeries_columnNames(existing, columnName, columnIndex) ==
    Wrap([op |-> "setSeries",
          columnName |-> columnName,
          columnNames |-> IF columnIndex < 0 THEN Append(existing, columnName)
                          ELSE [i \in 1..Len(existing) |->
                                   IF i - 1 = columnIndex THEN columnName ELSE existing[i]]])

\* remapColumns(columnNames): columnNames: columnNames.
remapColumns_columnNames(columnNames) ==
    Wrap([op |-> "remapColumns", columnNames |-> columnNames])

\* renameSeries(newColumnNames) with an array: one name for each existing column.
renameSeries_array(existing, newColumnNames) ==
    /\ Len(newColumnNames) = Len(existing)
    /\ Wrap([op |-> "renameSeries", columnNames |-> newColumnNames])

\* renameSeries(columnsMap) with an object from old names to new names:
\* renamedColumns[self.getColumnIndex(old)] = columnsMap[old] for every key.
renameSeries_map(existing, columnsMap) ==
    renameSeries_array(existing,
        [i \in 1..Len(existing) |->
            IF existing[i] \in DOMAIN columnsMap
                    /\ getColumnIndex(existing, existing[i]) = i - 1
            THEN columnsMap[existing[i]] ELSE existing[i]])

\* Strip out non-existing columns.
columnsToMove(existing, columnOrColumns) ==
    SelectSeq(columnOrColumns, LAMBDA name : name \in Elements(existing))

remainingColumnNames(existing, moved) ==
    SelectSeq(existing, LAMBDA name : name \notin Elements(moved))

bringToFront_columnNames(existing, moved) ==
    remapColumns_columnNames(moved \o remainingColumnNames(existing, moved))

bringToBack_columnNames(existing, moved) ==
    remapColumns_columnNames(remainingColumnNames(existing, moved) \o moved)

DataFrame_dropSeries ==
    \E columnOrColumns \in NameArrays :
        dropSeries_columnNames(getColumnNames(pipe), columnOrColumns)
DataFrame_keepSeries ==
    \E columnOrColumns \in NameArrays : keepSeries_columnNames(columnOrColumns)
setSeries ==
    \E columnName \in Names :
        setSeries_columnNames(getColumnNames(pipe), columnName,
                              getColumnIndex(getColumnNames(pipe), columnName))
remapColumns == \E columnNames \in NameArrays : remapColumns_columnNames(columnNames)
renameSeries ==
    \/ \E newColumnNames \in NameArrays :
            renameSeries_array(getColumnNames(pipe), newColumnNames)
    \/ \E old \in Names, new \in Names :
            renameSeries_map(getColumnNames(pipe), old :> new)
bringToFront ==
    \E columnOrColumns \in NameArrays :
        bringToFront_columnNames(getColumnNames(pipe),
                                 columnsToMove(getColumnNames(pipe), columnOrColumns))
bringToBack ==
    \E columnOrColumns \in NameArrays :
        bringToBack_columnNames(getColumnNames(pipe),
                                columnsToMove(getColumnNames(pipe), columnOrColumns))

-----------------------------------------------------------------------------
(* join of a Series of numbers with another.                               *)

InitJoin ==
    /\ source \in InnerSeries
    /\ InitRest

NextJoin ==
    \/ skip
    \/ join
    \/ ToPairs

SpecJoin == InitJoin /\ [][NextJoin]_vars

IsJoin(p) == TopOp(p) = "array" /\ Top(p).by = "join"

\* The nested loop over outer then inner: the positions of the pairs of equal
\* keys, and the records combined from them, indexed 0, 1, 2, ...
NestedLoop(outerPairs, innerPairs) ==
    LET width == Len(innerPairs) + 1
        hits == Ascending({i * width + j : i \in 1..Len(outerPairs), j \in 1..Len(innerPairs)})
        kept == SelectSeq(hits,
                    LAMBDA h : outerPairs[h \div width][2] = innerPairs[h % width][2])
    IN  [n \in 1..Len(kept) |->
            <<n - 1, resultSelector(outerPairs[kept[n] \div width][2],
                                    innerPairs[kept[n] % width][2])>>]

\* C12 as claimed: the frame a.join(b, ..) returns yields one record for every
\* outer and inner pair of equal keys, ordered by outer then inner position and
\* indexed 0..n-1.
JoinIsNestedLoop ==
    IsJoin(pipe) =>
        Raw(pipe) = NestedLoop(toPairs(Prefix(pipe), Store).val, Top(pipe).inner)

\* What the frame does yield: nothing.
JoinYieldsNothing == IsJoin(pipe) => Raw(pipe) = <<>>

-----------------------------------------------------------------------------
(* fillGaps over a series with an index of its own.                        *)

NextFillGaps ==
    \/ skip
    \/ fillGaps
    \/ ToPairs
    \/ Count

SpecFillGaps == InitSlice /\ [][NextFillGaps]_vars

IsFillGaps(p) == TopOp(p) = "array" /\ Top(p).by = "fillGaps"

RECURSIVE Filled(_, _)
\* pairs[i] followed by the fill of the gap after it, for i, i + 1, .. up to
\* the pair before the last.
Filled(pairs, i) ==
    IF i >= Len(pairs) THEN <<>>
    ELSE <<pairs[i]>>
            \o (IF pairs[i + 1][1] - pairs[i][1] > 1
                THEN [n \in 1..(pairs[i + 1][1] - pairs[i][1] - 1) |->
                        <<pairs[i][1] + n, pairs[i][2]>>]
                ELSE <<>>)
            \o Filled(pairs, i + 1)

\* C13 as claimed: the Series fillGaps returns yields each source pair but the
\* last followed by the fill of the gap after it, and then the last pair.
FillGapsKeepsEveryPair ==
    IsFillGaps(pipe) =>
        LET from == Raw(Prefix(pipe))
        IN  Raw(pipe) = Append(Filled(from, 1), from[Len(from)])

\* What it does yield: of the pairs before the last and of the fills, those
\* whose value is not undefined, and then the last pair.
FillGapsKeepsDefinedPairs ==
    IsFillGaps(pipe) =>
        LET from == Raw(Prefix(pipe))
        IN  Raw(pipe) = Append(SelectSeq(Filled(from, 1), LAMBDA pair : pair[2] # Undefined),
                               from[Len(from)])

-----------------------------------------------------------------------------
(* aggregate over a Series of numbers.                                     *)

NextAggregate ==
    \/ skip
    \/ aggregate

SpecAggregate == InitJoin /\ [][NextAggregate]_vars

RECURSIVE FoldLeft(_, _)
\* The left fold of the reducer over the values of pairs, starting from seed.
FoldLeft(seed, pairs) ==
    IF pairs = <<>> THEN seed
    ELSE FoldLeft(aggregate_selector("user", seed, pairs[1][2]), Tail(pairs))

\* C14: aggregate(reduce) on a Series that is not empty is the left fold over
\* the values from the second on, seeded with the first; aggregate(seed, reduce)
\* is the left fold over all values from seed, a function as seed included.
AggregateIsLeftFold ==
    \A i \in 1..Len(results) :
        results[i].call = "aggregate" =>
            LET from == Raw(results[i].on)
            IN  IF results[i].args = <<>>
                THEN from # <<>> => results[i].val = FoldLeft(from[1][2], Tail(from))
                ELSE results[i].val = FoldLeft(results[i].args[1], from)

AggregateIsLeftFoldWitness ==
    /\ Len(results) = 2
    /\ pipe = <<>> /\ Len(source) = 3
    /\ source[1][2] = Num(1) /\ source[2][2] = Num(2) /\ source[3][2] = Num(1)
    /\ results[1].call = "aggregate" /\ results[1].args = <<>> /\ results[1].val = Num(9)
    /\ results[2].call = "aggregate" /\ results[2].args = <<FunctionValue>>
    /\ results[2].val = Num(9)

-----------------------------------------------------------------------------
(* The terminal calls that return one value, on Series of numbers that may *)
(* be empty.                                                               *)

NextCalls ==
    \/ skip
    \/ take
    \/ where
    \/ Call
    \/ ToPairs
    \/ Count

SpecCalls == InitJoin /\ [][NextCalls]_vars

Throwing == Calls \ {"sum", "average"}

Threw(i) == results[i].call \in Throwing /\ Raw(results[i].on) = <<>>

\* The store of a program that has made no call yet.
Pristine ==
    (RootLog :> 0) @@ (RootArray :> source)
        @@ [s \in {IterableScope} \cup Clients |-> BlankStore]

\* What the call recorded in result would return had no call been made before.
Afresh(result) ==
    CASE result.call = "toPairs" -> toPairs(result.on, Pristine).val
      [] result.call = "count" -> Series_count(result.on, Pristine).val
      [] OTHER -> Series_call(result.call, result.on, Pristine).val

\* C15: on an empty Series sum() and average() return 0 and min(), max(),
\* first(), last(), firstPair(), lastPair(), firstIndex() and lastIndex() throw;
\* a call made after one that threw returns what it returns on a fresh pipeline.
EmptySeriesCalls ==
    \A i \in 1..Len(results) :
        /\ (results[i].call \in Calls /\ Raw(results[i].on) = <<>>) =>
                results[i].val = IF results[i].call \in Throwing THEN Error ELSE Num(0)
        /\ (\E j \in 1..(i - 1) : Threw(j)) => results[i].val = Afresh(results[i])

EmptySeriesCallsWitness ==
    /\ Len(results) = 2
    /\ source # <<>> /\ pipe # <<>>
    /\ results[1].call = "min" /\ results[1].val = Error
    /\ results[2].call = "sum" /\ results[2].val = Num(0)

-----------------------------------------------------------------------------
(* all, any and none.                                                      *)

NextQuantifiers ==
    \/ skip
    \/ where
    \/ select
    \/ all
    \/ any
    \/ none

SpecQuantifiers == Init /\ [][NextQuantifiers]_vars

\* The values a cursor over the pipeline p yields, absent ones included.
ValuesOf(p) == [k \in 1..Len(Raw(p)) |-> Raw(p)[k][2]]

Some(fn, vals) == \E k \in 1..Len(vals) : predicate(fn, vals[k])
Every(fn, vals) == \A k \in 1..Len(vals) : predicate(fn, vals[k])

\* C16: all(p) is true iff the Series has a value and p holds for every value;
\* any(p) is true iff p holds for some value and none(p) is its negation; any()
\* is true iff the Series has a value and none() is its negation.
QuantifierLaws ==
    \A i \in 1..Len(results) :
        LET result == results[i]
        IN  /\ result.call = "all" =>
                  result.val = (ValuesOf(result.on) # <<>> /\ Every(result.args[1], ValuesOf(result.on)))
            /\ (result.call = "any" /\ result.args # <<>>) =>
                  result.val = Some(result.args[1], ValuesOf(result.on))
            /\ (result.call = "none" /\ result.args # <<>>) =>
                  result.val = ~Some(result.args[1], ValuesOf(result.on))
            /\ (result.call = "any" /\ result.args = <<>>) =>
                  result.val = (ValuesOf(result.on) # <<>>)
            /\ (result.call = "none" /\ result.args = <<>>) =>
                  result.val = (ValuesOf(result.on) = <<>>)

QuantifierLawsWitness ==
    /\ Len(results) = 2
    /\ source # <<>> /\ pipe # <<>>
    /\ results[1].call = "all" /\ ~results[1].val /\ ValuesOf(pipe) = <<>>
    /\ results[2].call = "none" /\ results[2].args = <<"isOne">> /\ results[2].val

-----------------------------------------------------------------------------
(* parseInts, parseFloats and parseDates on Series of strings and others.  *)

ParseValues == {Undefined, Null, Num(1), Str(""), Str("1"), Str("12")}

InitParse ==
    /\ source \in {DefaultIndexed(values) : values \in ArraysOf(ParseValues)}
    /\ InitRest

NextParse ==
    \/ skip
    \/ take
    \/ parseInts
    \/ parseFloats
    \/ parseDates
    \/ ParsedToPairs
    \/ ParsedToValues
    \/ \E c \in Clients : ClientGetIterator(c)
    \/ \E c \in Clients : ClientMoveNext(c)

SpecParse == InitParse /\ [][NextParse]_vars

\* What the parse function operator makes of value: Error when it throws.
Parsed(operator, value) ==
    IF value \in {Undefined, Str("")} THEN Undefined
    ELSE IF value.kind # "str" THEN Error
    ELSE IF operator.op = "parseDates" THEN Date(value.s, operator.formatString)
    ELSE IF value.s = "1" THEN Num(1) ELSE Num(12)

ParsedPairs(operator, pairs) ==
    [k \in 1..Len(pairs) |-> <<pairs[k][1], Parsed(operator, pairs[k][2])>>]

Defined(pairs) == SelectSeq(pairs, LAMBDA pair : pair[2] # Undefined)

\* C17: calling a parse function reads nothing and raises nothing; a cursor
\* over the parsed Series gives every pair of its input with the same index,
\* absent for an absent value or an empty string, and throws at a value that is
\* not a string; toPairs() and toValues() throw when some value is not a string.
ParseLaws ==
    /\ ((\A c \in Clients : status[c] = "closed") /\ results = <<>>) => srcIters = 0
    /\ \A c \in Clients :
          (TopOp(pipe) \in ParseOps /\ status[c] # "closed") =>
              seen[c] = SubSeq(ParsedPairs(Top(pipe), Raw(Prefix(pipe))), 1, Len(seen[c]))
    /\ \A i \in 1..Len(results) :
          TopOp(results[i].on) \in ParseOps =>
              LET parsed == ParsedPairs(Top(results[i].on), Raw(Prefix(results[i].on)))
              IN  IF \E k \in 1..Len(parsed) : parsed[k][2] = Error
                  THEN results[i].val = Error
                  ELSE IF results[i].call = "toPairs"
                       THEN results[i].val = Defined(parsed)
                       ELSE results[i].val
                                = [k \in 1..Len(Defined(parsed)) |-> Defined(parsed)[k][2]]

ParseLawsWitness ==
    /\ Len(results) = 2
    /\ Len(pipe) = 2 /\ pipe[1].op = "skip" /\ pipe[1].n = 1 /\ pipe[2].op = "parseInts"
    /\ Len(source) = 3
    /\ source[1][2] = Str("") /\ source[2][2] = Str("12") /\ source[3][2] = Num(1)
    /\ results[2].call = "toValues"

-----------------------------------------------------------------------------
(* The arguments of the predicate of where, skipWhile, skipUntil,          *)
(* takeWhile and takeUntil.                                                *)

NextPredicates ==
    \/ whereIndex
    \/ skipWhileIndex
    \/ skipUntil
    \/ takeWhileIndex
    \/ takeUntil
    \/ ToPairs
    \/ Count

SpecPredicates == InitSlice /\ [][NextPredicates]_vars

\* What the operator makes of the pairs from when its predicate holds of the
\* pairs for which holds is true.
Filtered(operator, from, holds(_)) ==
    LET accepted(pair) == IF operator.fn \in Untils THEN ~holds(pair) ELSE holds(pair)
        rejected == {k \in 1..Len(from) : ~accepted(from[k])}
        firstRejected == IF rejected = {} THEN Len(from) + 1
                         ELSE CHOOSE k \in rejected : \A j \in rejected : k <= j
    IN  CASE operator.op = "where" -> SelectSeq(from, accepted)
          [] operator.op = "skipWhile" -> SubSeq(from, firstRejected, Len(from))
          [] operator.op = "takeWhile" -> SubSeq(from, 1, firstRejected - 1)

\* The user's predicate called with the value and the index of the pair.
WithValueAndIndex(fn, pair) == predicate_call(fn, <<pair[2], pair[1]>>)

\* The user's predicate called with the value of the pair alone.
WithValue(fn, pair) == predicate_call(fn, <<pair[2]>>)

UserFn(operator) == IF operator.fn \in Untils THEN UntilOf(operator.fn) ELSE operator.fn

\* C18: the predicate of Series.where, skipWhile, skipUntil, takeWhile and
\* takeUntil is called with the value of the tested pair as first and its index
\* as second argument.
PredicateReceivesValueAndIndex ==
    \A i \in 1..Len(results) :
        (results[i].call = "count" /\ results[i].on # <<>>) =>
            results[i].val
                = Len(Filtered(Top(results[i].on), Raw(Prefix(results[i].on)),
                               LAMBDA pair : WithValueAndIndex(UserFn(Top(results[i].on)), pair)))

\* The predicate is called with the value of the tested pair and nothing else.
PredicateReceivesValueOnly ==
    \A i \in 1..Len(results) :
        (results[i].call = "count" /\ results[i].on # <<>>) =>
            results[i].val
                = Len(Filtered(Top(results[i].on), Raw(Prefix(results[i].on)),
                               LAMBDA pair : WithValue(UserFn(Top(results[i].on)), pair)))

-----------------------------------------------------------------------------
(* bake on Series and DataFrames.                                          *)

InitBake ==
    /\ source \in {DefaultIndexed(values) : values \in ArraysOf(Values) \cup ArraysOf(Rows)}
    /\ InitRest

NextBake ==
    \/ skip
    \/ where
    \/ reverse
    \/ Series_bake
    \/ DataFrame_bake
    \/ ToPairs
    \/ Count
    \/ \E c \in Clients : ClientGetIterator(c)
    \/ \E c \in Clients : ClientMoveNext(c)

SpecBake == InitBake /\ [][NextBake]_vars

IsBakedOp(operator) == operator.op = "array" /\ operator.by = "bake"
IsBaked(p) == p # <<>> /\ IsBakedOp(Top(p))
HasBaked(p) == \E k \in 1..Len(p) : IsBakedOp(p[k])

\* C19: bake() on a pipeline that is not baked asks the source for one cursor
\* and returns a new pipeline over the array it captured; no step made on a
\* pipeline with a baked stage asks the source for a cursor; bake() on a baked
\* pipeline returns that pipeline.
BakeLaws ==
    [][/\ (~HasBaked(pipe) /\ IsBaked(pipe')) =>
            /\ srcIters' = srcIters + 1
            /\ Prefix(pipe') = pipe
            /\ Top(pipe').pairs = SelectSeq(Raw(pipe), LAMBDA pair : pair[2] # Undefined)
       /\ HasBaked(pipe) => srcIters' = srcIters
       /\ (IsBaked(pipe) /\ IsBaked(pipe')) => pipe' = pipe
       /\ (Len(results') > Len(results) /\ results'[Len(results')].call = "bake") =>
            /\ IsBaked(pipe)
            /\ pipe' = pipe
            /\ results'[Len(results')].val = SeriesValue(pipe)]_vars

BakeLawsWitness ==
    /\ Len(pipe) = 2 /\ pipe[1].op = "reverse" /\ IsBaked(pipe)
    /\ Len(source) = MaxLen
    /\ Len(results) = 2
    /\ results[1].call = "bake"
    /\ results[2].call = "count" /\ results[2].val > 0
    /\ srcIters = 1

-----------------------------------------------------------------------------
(* The column names of the DataFrames built from one with distinct names.  *)

NextColumns ==
    \/ DataFrame_dropSeries
    \/ DataFrame_keepSeries
    \/ setSeries
    \/ remapColumns
    \/ renameSeries
    \/ bringToFront
    \/ bringToBack

SpecColumns == InitFrame /\ [][NextColumns]_vars

PairwiseDistinct(array) ==
    \A i, j \in 1..Len(array) : array[i] = array[j] => i = j

\* C20: the column names of a DataFrame built by setSeries, dropSeries,
\* keepSeries, renameSeries, remapColumns, bringToFront and bringToBack from one
\* whose column names are pairwise distinct are pairwise distinct.
ColumnNamesDistinct == PairwiseDistinct(getColumnNames(pipe))

\* Only keepSeries, renameSeries and remapColumns, which bringToFront and
\* bringToBack end with, build column names that are not distinct from distinct
\* ones: setSeries and dropSeries never do.
SetSeriesAndDropSeriesKeepDistinct ==
    [][(/\ pipe' # pipe
        /\ PairwiseDistinct(getColumnNames(pipe))
        /\ ~PairwiseDistinct(getColumnNames(pipe')))
            => Top(pipe').op \in {"keepSeries", "remapColumns", "renameSeries"}]_vars

-----------------------------------------------------------------------------
(* The cursor protocol of the terminal calls: toPairs() and the like read  *)
(* the current pair after every moveNext() that returned true              *)
(* (ClientMoveNext); last(), lastPair() and lastIndex() step to the end    *)
(* and read then.                                                          *)

NextLast ==
    \/ where
    \/ takeWhile
    \/ \E c \in Clients : ClientGetIterator(c)
    \/ \E c \in Clients : ClientMoveNext(c)
    \/ \E c \in Clients : last_moveNext(c)
    \/ \E c \in Clients : last_getCurrent(c)

SpecLast == InitBake /\ [][NextLast]_vars

\* C21: getCurrent() is called on a cursor only after a moveNext() that
\* returned true and before one that returned false: a step that reads the
\* current pair leaves the cursor live.
GetCurrentOnlyWhileLive ==
    [][\A c \in Clients : seen'[c] # seen[c] => status'[c] = "live"]_vars

\* Only last(), lastPair() and lastIndex(), whose loop has ended with a
\* moveNext() that returned false, read the current pair of a cursor that is
\* not live.
OnlyLastReadsAfterTheEnd ==
    [][\A c \in Clients :
          (seen'[c] # seen[c] /\ status[c] # "ended") => status'[c] = "live"]_vars

\* The pair last() read is not among the pairs of the Series.
LastReadsAForeignPair ==
    \E c \in Clients :
        /\ status[c] = "returned"
        /\ \A k \in 1..Len(Raw(pipe)) : Raw(pipe)[k] # seen[c][Len(seen[c])]

-----------------------------------------------------------------------------
(* How often a sorted pipeline reads its source.                           *)

\* C22: the source of a sorted pipeline is read and sorted on the first
\* consumption only: however often the pipeline is consumed, one cursor is
\* requested from the source.
SortedOnce == pipe # <<>> => srcIters <= 1

\* Every consumption of a sorted pipeline reads the source and sorts again.
SortedOnEveryConsumption == srcIters = Len(results)

-----------------------------------------------------------------------------
(* thenBy on a sorted Series that is used again afterwards.                *)

NextThenBy ==
    \/ orderBy
    \/ orderByDescending
    \/ thenBy_on
    \/ thenByDescending_on
    \/ ToPairsOn

SpecThenBy == InitSort /\ [][NextThenBy]_vars

\* C23: thenBy and thenByDescending return a new sorted pipeline with one key
\* more and leave the one they were called on as it was: that one keeps its
\* single key, sorts by it alone when consumed afterwards, and a further thenBy
\* on it gives a pipeline of two keys.
ThenByLeavesEarlier ==
    /\ \A k \in 1..Len(pipe) :
          /\ pipe[k].op = "orderBy" => Len(pipe[k].batch) = 1
          /\ pipe[k].op = "thenBy" =>
                /\ Len(pipe[k].batch) = 2
                /\ pipe[k].batch[1] = pipe[k - 1].batch[1]
    /\ \A i \in 1..Len(results) :
          LET on == results[i].on
          IN  /\ TopOp(on) = "orderBy" =>
                    /\ Len(Top(on).batch) = 1
                    /\ IsStableSort(results[i].val,
                                    SelectSeq(Raw(Prefix(on)), LAMBDA pair : pair[2] # Undefined),
                                    Top(on).batch)
              /\ TopOp(on) = "thenBy" =>
                    IsStableSort(results[i].val,
                                 SelectSeq(Raw(SubSeq(on, 1, Len(on) - 2)),
                                           LAMBDA pair : pair[2] # Undefined),
                                 Top(on).batch)

ThenByLeavesEarlierWitness ==
    /\ TopOp(pipe) = "thenBy"
    /\ Len(results) = 2
    /\ results[1].on = pipe
    /\ results[2].on = Prefix(pipe)
    /\ results[1].val # results[2].val

-----------------------------------------------------------------------------
(* The cursor of skipWhile and skipUntil, stepped by its clients.          *)

NextSkipWhile ==
    \/ skipWhile
    \/ skipUntil
    \/ \E c \in Clients : ClientGetIterator(c)
    \/ \E c \in Clients : ClientMoveNext(c)

SpecSkipWhile == Init /\ [][NextSkipWhile]_vars

\* The variables of the cursor of client c on the current Series.
SkipWhileCursor(c) == Get(cells, c, Len(pipe))
Opened(c) == status[c] # "closed" /\ TopOp(pipe) = "skipWhile"

\* The condition under which the Series skips: the user's predicate for
\* skipWhile, its negation for skipUntil.
Skips(operator, pair) ==
    IF operator.fn \in Untils THEN ~WithValue(UntilOf(operator.fn), pair)
    ELSE WithValue(operator.fn, pair)

\* C24: a skipWhile cursor calls its predicate on successive source pairs up to
\* and including the first one for which it is false; that pair and every later
\* source pair are emitted in source order, and the predicate is not called on
\* that cursor again; skipUntil(p) skips while p is false.
SkipWhileCallsUntilFirstFalse ==
    /\ [](\A c \in Clients : Opened(c) =>
            LET cur == SkipWhileCursor(c)
                from == Raw(Prefix(pipe))
                n == Len(cur.tested)
            IN  /\ n <= Len(from) /\ cur.tested = SubSeq(from, 1, n)
                /\ \A i \in 1..(n - 1) : Skips(Top(pipe), from[i])
                /\ cur.skipped <=> (n > 0 /\ ~Skips(Top(pipe), from[n]))
                /\ IF cur.skipped
                   THEN seen[c] = SubSeq(from, n, n + Len(seen[c]) - 1)
                   ELSE seen[c] = <<>>
                /\ status[c] = "done" =>
                        /\ ~cur.skipped => n = Len(from)
                        /\ cur.skipped => n + Len(seen[c]) - 1 = Len(from))
    /\ [][\A c \in Clients :
            (Opened(c) /\ SkipWhileCursor(c).skipped) =>
                Get(cells', c, Len(pipe)).tested = SkipWhileCursor(c).tested]_vars

\* A cursor of skipUntil has emitted a pair for which the predicate holds and
\* then one for which it does not, after skipping one.
SkipWhileCallsUntilFirstFalseWitness ==
    \E c \in Clients :
        /\ Opened(c)
        /\ Top(pipe).fn \in Untils
        /\ Len(SkipWhileCursor(c).tested) = 2
        /\ Len(seen[c]) = 2
        /\ Skips(Top(pipe), seen[c][2])

-----------------------------------------------------------------------------
(* slice(start, end, predicate).                                           *)

NextSliceWith ==
    \/ sliceWith
    \/ Count

SpecSliceWith == InitSlice /\ [][NextSliceWith]_vars

\* The pairs of from after those of its leading run that skips holds of, up to
\* the first one that takes does not hold of.
SkipThenTake(from, skips(_), takes(_)) ==
    Filtered([fn |-> "none", op |-> "takeWhile"],
             Filtered([fn |-> "none", op |-> "skipWhile"], from, skips),
             takes)

SliceCount(i, starts(_, _), ends(_, _)) ==
    LET operator == Top(results[i].on)
    IN  Len(SkipThenTake(Raw(Prefix(results[i].on)),
                         LAMBDA pair : starts(operator, pair[1]),
                         LAMBDA pair : ends(operator, pair[1])))

\* C25: with a comparison predicate, slice skips exactly while
\* predicate(index, start) is true and then takes exactly while
\* predicate(index, end) is true; the comparison < plays no part.
SliceUsesOnlyThePredicate ==
    \A i \in 1..Len(results) :
        (results[i].call = "count" /\ TopOp(results[i].on) = "slice") =>
            results[i].val
                = SliceCount(i, LAMBDA operator, index : slice_predicate(operator.predicate, index, operator.start),
                                LAMBDA operator, index : slice_predicate(operator.predicate, index, operator.end))

\* slice skips while predicate(index, start) or index < start, and then takes
\* while predicate(index, end) or index < end.
SliceUsesThePredicateOrLess ==
    \A i \in 1..Len(results) :
        (results[i].call = "count" /\ TopOp(results[i].on) = "slice") =>
            results[i].val
                = SliceCount(i, LAMBDA operator, index : slice_predicate(operator.predicate, index, operator.start)
                                                        \/ index < operator.start,
                                LAMBDA operator, index : slice_predicate(operator.predicate, index, operator.end)
                                                        \/ index < operator.end)

\* index [0, 1, 2], slice(1, 0, function (a, b) { return a > b; }) keeps the
\* pairs at 1 and 2, where the predicate alone keeps none.
SliceFallsBackToLess ==
    /\ Len(results) = 1 /\ results[1].call = "count" /\ results[1].val = 2
    /\ pipe = <<[predicate |-> "greater", op |-> "slice", start |-> 1, end |-> 0]>>
    /\ Len(source) = 3 /\ \A k \in 1..3 : source[k][1] = k - 1

-----------------------------------------------------------------------------
(* setIndex on a DataFrame some of whose rows lack the column.             *)

IndexColumnValues == {Num(1), Num(2)}

IndexedRows ==
    {Row(f) : f \in UNION {[names -> IndexColumnValues] : names \in SUBSET ColumnNames}}

InitSetIndex ==
    /\ source \in {DefaultIndexed(values) : values \in ArraysOf(IndexedRows)}
    /\ InitRest

setIndex == \E columnName \in ColumnNames : Wrap([op |-> "setIndex", columnName |-> columnName])

NextSetIndex ==
    \/ setIndex
    \/ ToPairs
    \/ Count

SpecSetIndex == InitSetIndex /\ [][NextSetIndex]_vars

\* Every pair of the frame has a value for the column.
EveryRowHas(from, columnName) ==
    \A i \in 1..Len(from) : Field(from[i][2], columnName) # Undefined

\* pairs has the rows of from in their order, each indexed by its own value of
\* the column.
IndexedByColumn(pairs, from, columnName) ==
    /\ Len(pairs) = Len(from)
    /\ \A i \in 1..Len(from) :
          /\ pairs[i][1] = Field(from[i][2], columnName)
          /\ pairs[i][2] = from[i][2]

\* C26: setIndex(col) yields the rows of the frame in their order, each indexed
\* by its own value of col and with its record unchanged, also when some rows
\* have no value for col.
SetIndexKeepsEveryRow ==
    \A i \in 1..Len(results) :
        (results[i].call = "toPairs" /\ TopOp(results[i].on) = "setIndex") =>
            IndexedByColumn(results[i].val, Raw(Prefix(results[i].on)),
                            Top(results[i].on).columnName)

\* The same, for a frame every row of which has a value for col.
SetIndexWhenEveryRowHasTheColumn ==
    \A i \in 1..Len(results) :
        (/\ results[i].call = "toPairs" /\ TopOp(results[i].on) = "setIndex"
         /\ EveryRowHas(Raw(Prefix(results[i].on)), Top(results[i].on).columnName)) =>
            IndexedByColumn(results[i].val, Raw(Prefix(results[i].on)),
                            Top(results[i].on).columnName)

\* rows [{ b: 1 }, { a: 2, b: 1 }], setIndex("a"): one row, the first, under the
\* index 2 of the second.
SetIndexShiftsTheIndex ==
    /\ Len(results) = 1 /\ results[1].call = "toPairs"
    /\ pipe = <<[op |-> "setIndex", columnName |-> "a"]>>
    /\ Len(source) = 2
    /\ Field(source[1][2], "a") = Undefined /\ Field(source[2][2], "a") = Num(2)
    /\ results[1].val = <<<<Num(2), source[1][2]>>>>

-----------------------------------------------------------------------------
(* transformSeries on a DataFrame with the columns a and b, with selectors *)
(* for columns the frame has and for one it does not have.                 *)

FullRows == {Row(f) : f \in [ColumnNames -> IndexColumnValues]}

InitTransform ==
    /\ source \in {DefaultIndexed(values) : values \in ArraysOf(FullRows)}
    /\ InitRest

\* Object.keys(columnSelectors): one or two distinct names.
SelectorKeys == {keys \in NameArrays : Cardinality(Elements(keys)) = Len(keys)}

\* Every selector is function (v) { return v + 1; }.
transformSeries ==
    \E keys \in SelectorKeys :
        Wrap([op |-> "transformSeries", columnNames |-> getColumnNames(pipe), keys |-> keys])

NextTransform ==
    \/ transformSeries
    \/ ToPairs
    \/ Count

SpecTransform == InitTransform /\ [][NextTransform]_vars

\* pairs is from with the selector applied to the columns in names that the
\* rows have, and nothing else changed.
Transformed(pairs, from, names) ==
    /\ Len(pairs) = Len(from)
    /\ \A i \in 1..Len(from) :
          /\ pairs[i][1] = from[i][1]
          /\ DOMAIN pairs[i][2].f = DOMAIN from[i][2].f
          /\ \A name \in DOMAIN from[i][2].f :
                pairs[i][2].f[name] = IF name \in names THEN selector(from[i][2].f[name])
                                      ELSE from[i][2].f[name]

\* The names in keys after the last one that is not in columns.
AfterLastMissing(keys, columns) ==
    {keys[i] : i \in {i \in 1..Len(keys) : \A j \in i..Len(keys) : keys[j] \in columns}}

\* C27: transformSeries applies its selector to every named column the frame
\* has and leaves the other columns unchanged; a name that is not a column is
\* ignored, wherever it stands among the names.
TransformSeriesIgnoresMissing ==
    \A i \in 1..Len(results) :
        (results[i].call = "toPairs" /\ TopOp(results[i].on) = "transformSeries") =>
            Transformed(results[i].val, Raw(Prefix(results[i].on)),
                        Elements(Top(results[i].on).keys))

\* transformSeries applies its selector to the named columns that follow the
\* last name that is not a column of the frame.
TransformSeriesRestartsAtMissing ==
    \A i \in 1..Len(results) :
        (results[i].call = "toPairs" /\ TopOp(results[i].on) = "transformSeries") =>
            Transformed(results[i].val, Raw(Prefix(results[i].on)),
                        AfterLastMissing(Top(results[i].on).keys,
                                         Elements(Top(results[i].on).columnNames)))

\* transformSeries({ a: fn, c: fn }) on a frame with the columns a and b gives
\* the frame itself.
TransformSeriesUndone ==
    /\ Len(results) = 1 /\ results[1].call = "toPairs"
    /\ Len(pipe) = 1 /\ pipe[1].op = "transformSeries" /\ pipe[1].keys = <<"a", "c">>
    /\ source # <<>>
    /\ results[1].val = source

-----------------------------------------------------------------------------
(* The end of the cursors of window and rollingWindow, for every period    *)
(* from 0.                                                                 *)

WindowPeriods == 0..MaxPeriod
\* The model follows a cursor for MaxAnswers answers of true, and a run for
\* MaxCursors cursors on the root.
MaxAnswers == 4
MaxCursors == 8

InitWindowEnds ==
    /\ source \in {DefaultIndexed(values) : values \in ArraysOf({Num(1), Undefined})}
    /\ InitRest

window_period == \E period \in WindowPeriods : Wrap([op |-> "window", period |-> period])
rollingWindow_period ==
    \E period \in WindowPeriods : Wrap([op |-> "rollingWindow", period |-> period])

\* The client that steps the cursor.
WindowClient == "client1"

Window_moveNext(c) ==
    /\ Len(seen[c]) < MaxAnswers
    /\ ClientMoveNext(c)

\* moveNext() on a cursor that has answered false.
Window_moveNext_again(c) ==
    /\ status[c] = "done"
    /\ srcIters < MaxCursors
    /\ ClientMoved(c, moveNext(pipe, Len(pipe), c, Store))

NextWindowEnds ==
    \/ window_period
    \/ rollingWindow_period
    \/ ClientGetIterator(WindowClient)
    \/ Window_moveNext(WindowClient)
    \/ Window_moveNext_again(WindowClient)

\* Window_moveNext(WindowClient) on a Series of windows, by what the client is
\* told: false, or true and a pair [windowIndex, window] whose window is
\* self.skip(n).take(period).
MayStep ==
    /\ status[WindowClient] \in {"before", "live"}
    /\ Len(seen[WindowClient]) < MaxAnswers
    /\ pipe # <<>>
WindowAnswers ==
    {<<windowIndex, SeriesValue(skipTake(Prefix(pipe), n, Top(pipe).period))>> :
        windowIndex \in 0..MaxAnswers, n \in 0..(MaxAnswers * MaxPeriod)}
Window_moveNext_told ==
    /\ MayStep
    /\ status' \in {[status EXCEPT ![WindowClient] = told] : told \in {"live", "done"}}
    /\ seen' \in {seen} \cup {[seen EXCEPT ![WindowClient] = Append(@, pair)] :
                                 pair \in WindowAnswers}

\* A client that holds a cursor goes on calling moveNext() until it is told
\* false.
SpecWindowEnds ==
    /\ InitWindowEnds
    /\ [][NextWindowEnds]_vars
    /\ WF_<<status, seen>>(Window_moveNext_told)

Stepping == status[WindowClient] \in {"before", "live"} /\ pipe # <<>>
Ended == status[WindowClient] = "done"

StaysDone == [][Ended => Ended']_status

\* None of the operators p is rollingWindow(0): the Series is finite.
Finite(p) == \A k \in 1..Len(p) : ~(p[k].op = "rollingWindow" /\ p[k].period = 0)

\* The cursor has answered true at most once for each pair of the Series the
\* windows are taken from.
AnswersBounded ==
    (pipe # <<>> /\ Finite(Prefix(pipe))) =>
        Len(seen[WindowClient]) <= Len(Raw(Prefix(pipe)))

\* C28: over a finite series and for every period >= 0 the cursor of
\* window(period) and of rollingWindow(period) answers false after finitely
\* many calls of moveNext(), at most one for each pair of the series and one
\* more, and false again on every call after that.
WindowCursorsEnd ==
    /\ []AnswersBounded
    /\ (Stepping /\ Finite(Prefix(pipe))) ~> Ended
    /\ StaysDone

RollingWindowOfZero == TopOp(pipe) = "rollingWindow" /\ Top(pipe).period = 0

\* The same for every period >= 1, and for window(0).
WindowCursorsEndUnlessRollingZero ==
    /\ [](~RollingWindowOfZero => AnswersBounded)
    /\ (Stepping /\ Finite(pipe)) ~> Ended
    /\ StaysDone

\* The steps of Window_moveNext(WindowClient) on a Series of windows are the
\* steps of Window_moveNext_told.
StepsTell ==
    [][(MayStep /\ (status'[WindowClient] # status[WindowClient]
                       \/ Len(seen'[WindowClient]) # Len(seen[WindowClient])))
          <=> Window_moveNext_told]_<<status, seen>>

\* The cursor of rollingWindow(0) never answers false.
RollingWindowOfZeroNeverEnds == RollingWindowOfZero => ~Ended

\* A cursor of rollingWindow(0) has answered true more often than the source
\* has pairs.
RollingWindowOfZeroGoesOn ==
    /\ RollingWindowOfZero
    /\ Len(seen[WindowClient]) = MaxAnswers
    /\ Len(seen[WindowClient]) > Len(source)

-----------------------------------------------------------------------------
(* variableWindow over a Series some of whose values are undefined.        *)

InitWindowAbsent ==
    /\ source \in {DefaultIndexed(values) :
                       values \in ArraysOf({Undefined} \cup {Num(n) : n \in 1..MaxValue})}
    /\ InitRest

NextWindowAbsent ==
    \/ skip
    \/ Series_variableWindow
    \/ ToPairs

SpecWindowAbsent == InitWindowAbsent /\ [][NextWindowAbsent]_vars

\* toPairs() of the windows k, k + 1, .. of windows, one after the other.
RECURSIVE WindowsToPairs(_, _)
WindowsToPairs(windows, k) ==
    IF k > Len(windows) THEN <<>>
    ELSE toPairs(windows[k][2].p, Store).val \o WindowsToPairs(windows, k + 1)

NoneAbsent(pairs) == \A i \in 1..Len(pairs) : pairs[i][2] # Undefined

\* C29: the windows of variableWindow(eq) partition the source, also when some
\* of its values are undefined: their toPairs(), one after the other in window
\* order, are toPairs() of the source.
VariableWindowsPartition ==
    IsVariableWindow(pipe) =>
        WindowsToPairs(Top(pipe).pairs, 1) = toPairs(Prefix(pipe), Store).val

\* The same for a source none of whose values is undefined.
VariableWindowsPartitionWhenNoneAbsent ==
    (IsVariableWindow(pipe) /\ NoneAbsent(Raw(Prefix(pipe)))) =>
        WindowsToPairs(Top(pipe).pairs, 1) = toPairs(Prefix(pipe), Store).val

\* values [undefined, 1, 2]: the windows are skip(0).take(1) and
\* skip(1).take(1), and the pair [2, 2] is in neither.
VariableWindowLosesAPair ==
    /\ Len(pipe) = 1 /\ IsVariableWindow(pipe) /\ Top(pipe).fn = "same"
    /\ Len(source) = 3
    /\ source[1][2] = Undefined /\ source[2][2] = Num(1) /\ source[3][2] = Num(2)
    /\ WindowsToPairs(Top(pipe).pairs, 1) = <<source[2]>>

-----------------------------------------------------------------------------
(* The pairs of a baked Series against those of the Series it was baked    *)
(* from.                                                                   *)

\* The cursor of p gives pairs, and count() on p has returned their number.
EmitsAndCounts(p, pairs) ==
    /\ Raw(p) = pairs
    /\ \A i \in 1..Len(results) :
          (results[i].call = "count" /\ results[i].on = p) => results[i].val = Len(pairs)

\* C30: the baked Series emits the pairs of its source in their order, also
\* when some values are undefined, so that count() agrees on the two.
BakePreservesPairs ==
    IsBaked(pipe) => EmitsAndCounts(pipe, Raw(Prefix(pipe)))

\* The same for a source none of whose values is undefined.
BakePreservesPairsWhenNoneAbsent ==
    (IsBaked(pipe) /\ NoneAbsent(Raw(Prefix(pipe)))) =>
        EmitsAndCounts(pipe, Raw(Prefix(pipe)))

\* The baked Series emits the pairs of its source whose value is not undefined.
BakeDropsAbsent ==
    IsBaked(pipe) =>
        EmitsAndCounts(pipe, SelectSeq(Raw(Prefix(pipe)), LAMBDA pair : pair[2] # Undefined))

\* values [undefined, 1]: count() of the baked Series is 1.
BakedCountsFewer ==
    /\ Len(pipe) = 1 /\ IsBaked(pipe)
    /\ Len(source) = 2 /\ source[1][2] = Undefined /\ source[2][2] = Num(1)
    /\ Len(results) = 1 /\ results[1].call = "count" /\ results[1].val = 1

====
